---- MODULE Spec2Model ----
(***************************************************************************)
(* One o365audit stream (x-pack/filebeat/input/o365audit/input.go): the    *)
(* retry loop o365input.Run, one run attempt o365input.run, initCheckpoint *)
(* and the Report action, together with the collaborators the input calls  *)
(* through interfaces: the cursor (checkpoint store), the publisher with   *)
(* its acknowledgments, the poller and the list action.                    *)
(* Beside the stream, each under a specification of its own:               *)
(* o365input.Test (SpecTest), two Runs that differ in their status         *)
(* reporter (SpecPair), toBeatEvent (SpecEvent), the poller on opaque      *)
(* actions (SpecPoller) and the PID cache of add_docker_metadata           *)
(* (libbeat/processors/add_docker_metadata, SpecCache).                    *)
(***************************************************************************)
EXTENDS Integers, Sequences, FiniteSets, TLC

VARIABLES
    now,        \* time.Now(), in abstract time units
    cancelled,  \* ctx.Cancelation has been cancelled
    store,      \* the persisted cursor state of the stream
    initStore,  \* the persisted state the process started with (never changes)
    inflight,   \* events handed to the publisher and not yet acknowledged
    acked,      \* records whose event has been acknowledged
    pc,         \* position of o365input.Run
    runErr,     \* the error the last run attempt returned
    start,      \* the checkpoint initCheckpoint returned to the current attempt
    loaded,     \* what that initCheckpoint call read: the cursor state and the clock
    queue,      \* the poller's action queue
    position,   \* the cursor of the last record the current attempt published
    status,     \* the last status given to the status reporter
    waitUntil,  \* end of the current timed.Wait
    failures,   \* consecutive failed run attempts (saturates at MaxFailures)
    failed,     \* the last failed publish of a record: the record and its page
    pubBit,     \* flips at every call of pub.Publish
    saveBit,    \* flips at every write of the persisted state
    lastRequest, \* time of the poller's last upstream call, NoCall before the first
    calls,      \* the pages the current attempt has asked the upstream for
    listed,     \* the records the upstream has returned to the current attempt
    pubLog,     \* the records the current attempt has published
    statusMsg,  \* the status messages of Run's last switch on a failed attempt
    tested,     \* the result of the last o365input.Test, and a bit flipped by each Test
    pairPc,     \* two Runs on the same outcomes: the position of each
    pairErr,    \* two Runs: the error of the last run attempt of each
    pairOps,    \* two Runs: the attempts, publishes, waits and returns of each
    pairStatus, \* two Runs: the last status ctx.StatusReporter received
    evDoc,      \* toBeatEvent: the fetched record
    evConfig,   \* toBeatEvent: SetIDFromAuditRecord, PreserveOriginalEvent
    evOut,      \* the events Report has handed to the callback for the record
    gQueue,     \* a poller on opaque actions: its queue, actions numbered as enqueued
    gCount,     \* a poller on opaque actions: the actions enqueued so far
    gLast,      \* a poller on opaque actions: the action last taken from the queue
    gRunning,   \* a poller on opaque actions: the actions in execution
    gResult,    \* a poller on opaque actions: "running" or what poller.Run returned
    cgroups,    \* add_docker_metadata: d.cgroups, the PID cache, made or not
    janitor,    \* add_docker_metadata: the janitor of the cache and its last sweep
    ctime,      \* add_docker_metadata: the clock of the cache
    cacheLog,   \* per PID: the last Put, the hits and listener calls since, and
                \* whether its cgroups have been read while its entry was cached
    docker,     \* add_docker_metadata: the watcher and what Close has returned
    inputConfig, \* configure: the tenant IDs and content types of the configuration
    sources,    \* configure: the streams it has returned
    enrichIn,   \* addDockerMetadata.Run: the processor's configuration and the event
    enrichOut,  \* addDockerMetadata.Run: what it consulted, chose and returned
    fetcher,    \* fetchMetadata: the provider, the URLs left and the request under way
    fetchRes,   \* fetchMetadata: the result it builds and returns
    goPc,       \* concurrent lookups: the position of each goroutine
    goSeen,     \* concurrent lookups: what each goroutine has read of d.cgroups
    goCgroups,  \* concurrent lookups: d.cgroups, 0 for nil or the cache it points to
    goCaches,   \* concurrent lookups: the caches made, their janitors and entries
    goClosed,   \* concurrent lookups: Close has returned
    tConfig,    \* one tenant: the number of content types and MaxRequestsPerMinute
    tNow,       \* one tenant: the clock, in sixths of a minute
    tLast,      \* one tenant: the time of the last upstream call of each stream
    tCalls      \* one tenant: the upstream calls of the last minute, by stream and time

(* The variables of the other components, which a stream leaves alone. *)
logVars == <<calls, listed, pubLog, statusMsg>>
testVars == <<tested>>
pairVars == <<pairPc, pairErr, pairOps, pairStatus>>
eventVars == <<evDoc, evConfig, evOut>>
pollerVars == <<gQueue, gCount, gLast, gRunning, gResult>>
cacheVars == <<cgroups, janitor, ctime, cacheLog, docker>>
configVars == <<inputConfig, sources>>
enrichVars == <<enrichIn, enrichOut>>
fetchVars == <<fetcher, fetchRes>>
raceVars == <<goPc, goSeen, goCgroups, goCaches, goClosed>>
tenantVars == <<tConfig, tNow, tLast, tCalls>>
auxVars == <<testVars, pairVars, eventVars, pollerVars, cacheVars, configVars,
            enrichVars, fetchVars, raceVars, tenantVars>>
notTest == <<pairVars, eventVars, pollerVars, cacheVars, configVars,
            enrichVars, fetchVars, raceVars, tenantVars>>
notPair == <<testVars, eventVars, pollerVars, cacheVars, configVars,
            enrichVars, fetchVars, raceVars, tenantVars>>
notEvent == <<testVars, pairVars, pollerVars, cacheVars, configVars,
            enrichVars, fetchVars, raceVars, tenantVars>>
notPoller == <<testVars, pairVars, eventVars, cacheVars, configVars,
            enrichVars, fetchVars, raceVars, tenantVars>>
notCache == <<testVars, pairVars, eventVars, pollerVars, configVars,
            enrichVars, fetchVars, raceVars, tenantVars>>
notConfig == <<testVars, pairVars, eventVars, pollerVars, cacheVars, enrichVars,
              fetchVars, raceVars, tenantVars>>
notEnrich == <<testVars, pairVars, eventVars, pollerVars, cacheVars, configVars,
              fetchVars, raceVars, tenantVars>>
notFetch == <<testVars, pairVars, eventVars, pollerVars, cacheVars, configVars,
             enrichVars, raceVars, tenantVars>>
notRace == <<testVars, pairVars, eventVars, pollerVars, cacheVars, configVars,
            enrichVars, fetchVars, tenantVars>>
notTenant == <<testVars, pairVars, eventVars, pollerVars, cacheVars, configVars,
              enrichVars, fetchVars, raceVars>>

vars == <<now, cancelled, store, initStore, inflight, acked, pc, runErr, start,
          loaded, queue, position, status, waitUntil, failures, failed, pubBit,
          saveBit, lastRequest, logVars, auxVars>>

----------------------------------------------------------------------------
(* Bounds of the model. The retention spans a failed attempt that has    *)
(* published two records of different blobs plus the retry wait, so that *)
(* a retry can replay a record older than one still unacknowledged.      *)
MaxRetention == 4
ErrorRetryInterval == 1
Horizon == 2
PageSpan == 2
LinesPerBlob == 2
MaxInflight == 2
MaxFailures == 2
NumContentTypes == 2
MaxRequestsPerMinute == 4

(* time.Minute, in the time units of the model. *)
Minute == 2

(* The clock starts late enough for a saved checkpoint to be stale. *)
Now0 == MaxRetention + 1
MaxTime == Now0 + Horizon

(* The zero time.Time of `var cp checkpoint`: before every other time. *)
ZeroTime == -100

Times == 0..MaxTime
Lines == 1..LinesPerBlob

----------------------------------------------------------------------------
(* type checkpoint: Timestamp, Line, StartTime. *)
Checkpoint(ts, line, st) == [Timestamp |-> ts, Line |-> line, StartTime |-> st]
ZeroCheckpoint == Checkpoint(ZeroTime, 0, ZeroTime)

(* A record of the upstream: line k of the content blob created at time t. *)
Rec(t, k) == <<t, k>>
NoRec == <<ZeroTime, 0>>
Records == Times \X Lines

(* Order of positions: by blob time, then by line. *)
PosBefore(t1, k1, t2, k2) == t1 < t2 \/ (t1 = t2 /\ k1 < k2)

(* The persisted state: nothing saved, a blob that does not unpack, or a checkpoint. *)
NoState == [kind |-> "none", cp |-> ZeroCheckpoint]
CorruptState == [kind |-> "corrupt", cp |-> ZeroCheckpoint]
Saved(cp) == [kind |-> "cp", cp |-> cp]

(* cursor.IsNew and cursor.Unpack, reading the persisted state. *)
IsNew(c) == c.kind = "none"
UnpackFails(c) == c.kind = "corrupt"
Unpack(c) == IF c.kind = "cp" THEN c.cp ELSE ZeroCheckpoint

----------------------------------------------------------------------------
(* initCheckpoint: the checkpoint a run attempt starts from, read through  *)
(* the cursor c at time t.                                                 *)
(* Variant: the retention is not subtracted from the clock. *)
RetentionLimitNow(t) == t

RetentionLimit(t) == t - MaxRetention

(* Variant: the saved checkpoint is used as loaded, without the clamp of *)
(* lines 221-231.                                                        *)
InitCheckpointNoClamp(c, t) ==
    IF IsNew(c) \/ UnpackFails(c)
    THEN [Unpack(c) EXCEPT !.Timestamp = RetentionLimit(t)]
    ELSE Unpack(c)

InitCheckpoint(c, t) ==
    LET retentionLimit == RetentionLimit(t)
        zero == ZeroCheckpoint
        cp == IF IsNew(c)
              THEN [zero EXCEPT !.Timestamp = retentionLimit]
              ELSE IF UnpackFails(c)
                   THEN [Unpack(c) EXCEPT !.Timestamp = retentionLimit]
                   ELSE Unpack(c)
    IN  IF cp.Timestamp < retentionLimit
        THEN [cp EXCEPT !.Timestamp = retentionLimit]
        ELSE cp

(* initCheckpoint, lines 207-219: the checkpoint before the check of line *)
(* 221, which has the retention limit as its timestamp when no state is  *)
(* saved or the saved state does not unpack.                             *)
LoadedCheckpoint(c, t) ==
    IF IsNew(c)
    THEN [ZeroCheckpoint EXCEPT !.Timestamp = RetentionLimit(t)]
    ELSE IF UnpackFails(c)
         THEN [Unpack(c) EXCEPT !.Timestamp = RetentionLimit(t)]
         ELSE Unpack(c)

(* Variant: the warning is raised at the retention limit too. *)
WarnsStaleInclusive(c, t) ==
    LoadedCheckpoint(c, t).Timestamp <= RetentionLimit(t)

(* initCheckpoint, lines 221-226: log.Warnw("Last update exceeds the *)
(* retention limit. ...").                                            *)
WarnsStale(c, t) ==
    LoadedCheckpoint(c, t).Timestamp < RetentionLimit(t)

(* Actions of the poller's queue: a list query or the report of one record. *)
ListAction(cursor, from) ==
    [type |-> "list", cursor |-> cursor, from |-> from, rec |-> NoRec]
ReportAction(r, private, from) ==
    [type |-> "report", cursor |-> private, from |-> from, rec |-> r]

(* makeListBlob and listBlob.WithStartTime. *)
MakeListBlob(cursor) == ListAction(cursor, cursor.Timestamp)
WithStartTime(action, st) == [action EXCEPT !.from = st]

(* run, lines 186-197: the first action of an attempt. *)
InitialAction(st) ==
    LET action == MakeListBlob(st)
    IN  IF st.Line > 0 THEN WithStartTime(action, st.StartTime) ELSE action

(* The records a list query for [from, from + PageSpan) returns at time t: *)
(* those already created and after the cursor, in order of position.       *)
PageSlots(a) ==
    [i \in 1..(PageSpan * LinesPerBlob) |->
        Rec(a.from + ((i - 1) \div LinesPerBlob), 1 + ((i - 1) % LinesPerBlob))]
Fetched(a, t, r) ==
    /\ r[1] < t
    /\ PosBefore(a.cursor.Timestamp, a.cursor.Line, r[1], r[2])
PageRecords(a, t) == SelectSeq(PageSlots(a), LAMBDA r : Fetched(a, t, r))

(* The actions a successful list query enqueues: one report per record,   *)
(* then the next page when the upstream holds more.                       *)
FollowUps(a, t) ==
    LET recs == PageRecords(a, t)
        reports == [i \in 1..Len(recs) |->
                      ReportAction(recs[i],
                                   Checkpoint(recs[i][1], recs[i][2], a.from),
                                   a.from)]
    IN  IF a.from + PageSpan < t
        THEN Append(reports, ListAction(a.cursor, a.from + PageSpan))
        ELSE reports

----------------------------------------------------------------------------
(* Errors: nil, context.Canceled itself, an error wrapping it, any other. *)
ErrNil == "nil"
ErrCanceled == "canceled"
ErrWrapped == "wrapped"
ErrOther == "other"
UpstreamErrors == {ErrOther, ErrWrapped}

(* errors.Is(err, context.Canceled) *)
IsCanceled(err) == err \in {ErrCanceled, ErrWrapped}

(* ctx.Cancelation.Err() *)
CancelationErr == IF cancelled THEN ErrCanceled ELSE ErrNil

(* Variant: Run gives up after one failed attempt. *)
SwitchCaseAttemptCap(err, cancelErr) ==
    CASE err = ErrNil \/ IsCanceled(err) -> "return"
      [] err # cancelErr /\ failures < 1 -> "degraded"
      [] OTHER -> "return"

(* Variant: err == context.Canceled instead of errors.Is. *)
SwitchCaseEq(err, cancelErr) ==
    CASE err = ErrNil \/ err = ErrCanceled -> "return"
      [] err # cancelErr -> "degraded"
      [] OTHER -> "loop"

(* Variant: a successful attempt is followed by another one. *)
SwitchCaseNilLoops(err, cancelErr) ==
    CASE IsCanceled(err) -> "return"
      [] err = ErrNil -> "loop"
      [] err # cancelErr -> "degraded"
      [] OTHER -> "loop"

(* The switch of Run on the error of a run attempt. *)
SwitchCase(err, cancelErr) ==
    CASE err = ErrNil \/ IsCanceled(err) -> "return"
      [] err # cancelErr -> "degraded"
      [] OTHER -> "loop"

(* The cursor Run publishes its pipeline_error event with: nil. *)
NilCursor == [has |-> FALSE, cp |-> ZeroCheckpoint]
SomeCursor(cp) == [has |-> TRUE, cp |-> cp]
(* Variant: the error event carries the position the attempt started from. *)
ErrorEventCursorStart == SomeCursor(start)

ErrorEventCursor == NilCursor

(* The cursor run hands to initCheckpoint: the one Run was given, which   *)
(* reads the persisted state of the stream.                               *)
(* Variant: a retry resumes from the position the failed attempt reached. *)
CursorStateInMemory == IF position.has THEN Saved(position.cp) ELSE store

CursorState == store

(* An event handed to the publisher: the record it was made from (NoRec for *)
(* an error event), its marker fields and the cursor update it carries.     *)
Event(r, cursor) == [rec |-> r, cursor |-> cursor, fields |-> {}]

(* Variant: the error event lacks its marker. *)
ErrorEventFieldsNoKind(err) == {<<"error.message", err>>}

(* Run, lines 129-131: the fields of the event Run publishes for err. *)
ErrorEventFields(err) ==
    {<<"error.message", err>>, <<"event.kind", "pipeline_error">>}

(* Run, lines 132-136: the event and the cursor handed to pub.Publish. *)
ErrorEvent(err) ==
    [rec |-> NoRec, cursor |-> ErrorEventCursor, fields |-> ErrorEventFields(err)]

(* The poller's rate limit: no upstream call before the minimum request *)
(* interval has passed since the last one; the first call is not delayed. *)
NoCall == ZeroTime

(* run, line 167: the delay between two requests of one stream. *)
Delay == (NumContentTypes * Minute) \div MaxRequestsPerMinute

(* Variant: run does not give the poller its delay. *)
MinRequestIntervalUnset == Delay * 0

(* run, line 171: poll.WithMinRequestInterval(delay). *)
MinRequestInterval == Delay

MayRequest(last, t) == last = NoCall \/ t >= last + MinRequestInterval

(* Variant: the follow-up actions go before the waiting ones. *)
EnqueueFirst(q, actions) == actions \o q

(* The poller enqueues the follow-up actions behind the waiting ones. *)
Enqueue(q, actions) == q \o actions

(* Variant: the wait ignores the cancellation. *)
WaitOverUncancellable(until) == now >= until

(* timed.Wait(ctx.Cancelation, d): over once cancelled or once d has passed. *)
WaitOver(until) == cancelled \/ now >= until

Flip(b) == 1 - b
Min(a, b) == IF a < b THEN a ELSE b
NoFailed == [rec |-> NoRec, from |-> ZeroTime]

(* Two calls of Run, one with ctx.StatusReporter nil, one with a reporter. *)
Sides == {"absent", "present"}

(* The other components at rest. *)
TestIdle == tested = <<"none", 0>>
PairIdle ==
    /\ pairPc = [s \in Sides |-> "start"]
    /\ pairErr = [s \in Sides |-> "nil"]
    /\ pairOps = [s \in Sides |-> <<>>]
    /\ pairStatus = [s \in Sides |-> "none"]
EventIdle ==
    /\ evDoc = [CreationTime |-> <<"missing", "", 0>>,
                Id |-> <<"missing", "", 0>>]
    /\ evConfig = [SetIDFromAuditRecord |-> FALSE, PreserveOriginalEvent |-> FALSE]
    /\ evOut = <<>>
(* poller.Run(action), run line 200: the queue holds the one action. *)
PollerIdle ==
    /\ gQueue = <<1>>
    /\ gCount = 1
    /\ gLast = 0
    /\ gRunning = {}
    /\ gResult = "running"
(* A new add_docker_metadata processor: d.cgroups is nil, no janitor runs. *)
MaxPids == 2
Pids == 1..MaxPids
NoEntry == [has |-> FALSE, v |-> "", at |-> 0]
(* No maximum entry count. *)
NoMax == 0
NoLog == [put |-> FALSE, src |-> "", v |-> "", at |-> 0, evictions |-> 0,
          hit |-> FALSE, reread |-> FALSE]
(* The maximum entry count of a cache made with one. *)
MaxEntries == 1
CacheNew(max) ==
    /\ cgroups = [made |-> FALSE, max |-> max, items |-> [p \in Pids |-> NoEntry]]
    /\ janitor = [running |-> FALSE, lastSweep |-> 0, sweeping |-> FALSE,
                  pending |-> {}]
    /\ ctime = 0
    /\ cacheLog = [p \in Pids |-> NoLog]
    /\ docker = [watcher |-> TRUE, closed |-> "open"]
CacheIdle == CacheNew(NoMax)
(* Run of add_docker_metadata has not been called. *)
EnrichIdle ==
    /\ enrichIn = [dockerAvailable |-> FALSE, matchSource |-> FALSE,
                   path |-> "#absent", pidFields |-> FALSE, pid |-> "",
                   fields |-> <<>>]
    /\ enrichOut = [done |-> FALSE, cid |-> "", consulted |-> <<>>]
(* fetchMetadata has not been called. *)
NoUrl == 0
FetchIdle ==
    /\ fetcher = [provider |-> "", handlers |-> {}, url |-> NoUrl, stage |-> 0,
                  pc |-> "idle"]
    /\ fetchRes = [err |-> "nil", raw |-> {}, conv |-> FALSE, provider |-> ""]
(* A new add_docker_metadata processor and the goroutines that will call *)
(* its Run: d.cgroups is nil, no cache has been made.                    *)
MaxGoroutines == 2
Goroutines == 1..MaxGoroutines
NilCache == 0
NoCache == [made |-> FALSE, janitor |-> FALSE, items |-> {}]
RaceIdle ==
    /\ goPc = [g \in Goroutines |-> "idle"]
    /\ goSeen = [g \in Goroutines |-> NilCache]
    /\ goCgroups = NilCache
    /\ goCaches = [c \in Goroutines |-> NoCache]
    /\ goClosed = FALSE
(* No stream of the tenant has been configured. *)
TenantIdle ==
    /\ tConfig = [types |-> 0, rpm |-> 0]
    /\ tNow = 0
    /\ tLast = <<>>
    /\ tCalls = {}
(* configure has not been called. *)
ConfigIdle ==
    /\ inputConfig = [TenantID |-> <<>>, ContentType |-> <<>>]
    /\ sources = <<>>
AuxIdle ==
    /\ TestIdle
    /\ PairIdle
    /\ EventIdle
    /\ PollerIdle
    /\ EnrichIdle
    /\ FetchIdle
    /\ RaceIdle
    /\ TenantIdle
    /\ CacheIdle
    /\ ConfigIdle

----------------------------------------------------------------------------
(* A stream before Run: nothing published, no attempt made. *)
StreamFresh ==
    /\ now = Now0
    /\ cancelled = FALSE
    /\ initStore = store
    /\ inflight = <<>>
    /\ acked = {}
    /\ pc = "start"
    /\ runErr = ErrNil
    /\ start = ZeroCheckpoint
    /\ loaded = [state |-> NoState, now |-> ZeroTime]
    /\ queue = <<>>
    /\ position = NilCursor
    /\ status = "none"
    /\ waitUntil = 0
    /\ failures = 0
    /\ failed = NoFailed
    /\ pubBit = 0
    /\ saveBit = 0
    /\ lastRequest = NoCall
    /\ calls = <<>>
    /\ listed = <<>>
    /\ pubLog = <<>>
    /\ statusMsg = <<>>

StreamInit ==
    /\ store \in {NoState, CorruptState}
                \cup {Saved(Checkpoint(t, k, st)) :
                        t \in 0..(Now0 - 1), k \in Lines, st \in 0..(Now0 - 1)}
    /\ (store.kind = "cp" => store.cp.StartTime <= store.cp.Timestamp
                              /\ store.cp.Timestamp < store.cp.StartTime + PageSpan)
    /\ StreamFresh

Init == StreamInit /\ AuxIdle

(* A stream that has not run yet and has no saved state. *)
StreamIdle == StreamInit /\ store = NoState

(* The environment. *)
Tick ==
    /\ now < MaxTime
    /\ now' = now + 1
    /\ UNCHANGED <<cancelled, store, initStore, inflight, acked, pc, runErr,
                   start, loaded, queue, position, status, waitUntil, failures,
                   failed, pubBit, saveBit,
                   lastRequest, logVars, auxVars>>

Cancel ==
    /\ ~cancelled
    /\ cancelled' = TRUE
    /\ UNCHANGED <<now, store, initStore, inflight, acked, pc, runErr, start,
                   loaded, queue, position, status, waitUntil, failures, failed,
                   pubBit, saveBit,
                   lastRequest, logVars, auxVars>>

(* The publisher acknowledges its oldest event; the completion callback *)
(* saves the cursor the event carries.                                  *)
Ack ==
    /\ inflight # <<>>
    /\ LET e == Head(inflight)
       IN  /\ inflight' = Tail(inflight)
           /\ acked' = IF e.rec = NoRec THEN acked ELSE acked \cup {e.rec}
           /\ IF e.cursor.has
              THEN store' = Saved(e.cursor.cp) /\ saveBit' = Flip(saveBit)
              ELSE UNCHANGED <<store, saveBit>>
    /\ UNCHANGED <<now, cancelled, initStore, pc, runErr, start, loaded, queue,
                   position, status, waitUntil, failures, failed, pubBit,
                   lastRequest, logVars, auxVars>>

----------------------------------------------------------------------------
(* o365input.Run *)

(* Lines 110-121: the status Starting; the source is always a *stream. *)
RunStart ==
    /\ pc = "start"
    /\ status' = "Starting"
    /\ pc' = "loop"
    /\ UNCHANGED <<now, cancelled, store, initStore, inflight, acked, runErr,
                   start, loaded, queue, position, waitUntil, failures, failed,
                   pubBit, saveBit,
                   lastRequest, logVars, auxVars>>

(* Line 123: the loop ends once the cancellation is seen, Run returns nil. *)
LoopCheck ==
    /\ pc = "loop"
    /\ pc' = IF CancelationErr = ErrNil THEN "run" ELSE "done"
    /\ statusMsg' = <<>>
    /\ UNCHANGED <<now, cancelled, store, initStore, inflight, acked, runErr,
                   start, loaded, queue, position, status, waitUntil, failures,
                   failed, pubBit, saveBit,
                   lastRequest, calls, listed, pubLog, auxVars>>

(* run, lines 151-183: the token or the poller cannot be had. *)
RunSetupFails ==
    /\ pc = "run"
    /\ \E err \in UpstreamErrors : runErr' = err
    /\ pc' = "returned"
    /\ failed' = NoFailed
    /\ UNCHANGED <<now, cancelled, store, initStore, inflight, acked, start,
                   loaded, queue, position, status, waitUntil, failures,
                   pubBit, saveBit,
                   lastRequest, logVars, auxVars>>

(* run, lines 185-200: the checkpoint is loaded, the poller gets the first *)
(* list action.                                                            *)
RunBegin ==
    /\ pc = "run"
    /\ start' = InitCheckpoint(CursorState, now)
    /\ loaded' = [state |-> CursorState, now |-> now]
    /\ queue' = <<InitialAction(start')>>
    /\ position' = NilCursor
    /\ lastRequest' = NoCall
    /\ calls' = <<>>
    /\ listed' = <<>>
    /\ pubLog' = <<>>
    /\ pc' = "poll"
    /\ UNCHANGED statusMsg
    /\ UNCHANGED <<now, cancelled, store, initStore, inflight, acked, runErr,
                   status, waitUntil, failures, failed, pubBit, saveBit,
                   auxVars>>

(* poller.Run returns err to run, which returns it to Run. *)
Return(err) ==
    /\ runErr' = err
    /\ pc' = "returned"
    /\ queue' = <<>>

(* The poller sees the cancellation and returns the cancellation error. *)
PollCancelled ==
    /\ pc = "poll"
    /\ cancelled
    /\ Return(ErrCanceled)
    /\ failed' = NoFailed
    /\ UNCHANGED <<now, cancelled, store, initStore, inflight, acked, start,
                   loaded, position, status, waitUntil, failures, pubBit,
                   saveBit,
                   lastRequest, logVars, auxVars>>

(* An empty queue ends the run with a nil error. *)
PollDone ==
    /\ pc = "poll"
    /\ ~cancelled
    /\ queue = <<>>
    /\ Return(ErrNil)
    /\ failed' = NoFailed
    /\ failures' = 0
    /\ UNCHANGED <<now, cancelled, store, initStore, inflight, acked, start,
                   loaded, position, status, waitUntil, pubBit, saveBit,
                   lastRequest, logVars, auxVars>>

(* A list query, the upstream call of the model: the poller makes it once *)
(* the minimum request interval has passed since its last call; it fails, *)
(* or its follow-up actions are enqueued.                                 *)
PollList ==
    /\ pc = "poll"
    /\ ~cancelled
    /\ queue # <<>>
    /\ Head(queue).type = "list"
    /\ MayRequest(lastRequest, now)
    /\ lastRequest' = now
    /\ calls' = Append(calls, Head(queue).from)
    /\ \/ /\ queue' = Enqueue(Tail(queue), FollowUps(Head(queue), now))
          /\ listed' = listed \o PageRecords(Head(queue), now)
          /\ UNCHANGED <<pc, runErr, failed>>
       \/ /\ \E err \in UpstreamErrors : Return(err)
          /\ failed' = NoFailed
          /\ UNCHANGED listed
    /\ UNCHANGED <<pubLog, statusMsg>>
    /\ UNCHANGED <<now, cancelled, store, initStore, inflight, acked, start,
                   loaded, position, status, waitUntil, failures, pubBit,
                   saveBit, auxVars>>

(* apiEnvironment.Report: the record's event is published with its cursor; *)
(* the publisher takes it, or fails.                                       *)
ReportStatus(err) == IF err = ErrNil THEN "Running" ELSE "Degraded"

(* Variant: Report swallows the publish error. *)
ReportResultSwallow(err) == ErrNil

ReportResult(err) == err

PollReport ==
    /\ pc = "poll"
    /\ ~cancelled
    /\ queue # <<>>
    /\ Head(queue).type = "report"
    /\ pubBit' = Flip(pubBit)
    /\ LET a == Head(queue)
       IN  \/ /\ Len(inflight) < MaxInflight
              /\ inflight' = Append(inflight, Event(a.rec, SomeCursor(a.cursor)))
              /\ status' = ReportStatus(ErrNil)
              /\ position' = SomeCursor(a.cursor)
              /\ pubLog' = Append(pubLog, a.rec)
              /\ IF ReportResult(ErrNil) = ErrNil
                 THEN queue' = Tail(queue) /\ UNCHANGED <<pc, runErr>>
                 ELSE Return(ReportResult(ErrNil))
              /\ UNCHANGED failed
           \/ /\ status' = ReportStatus(ErrOther)
              /\ IF ReportResult(ErrOther) = ErrNil
                 THEN queue' = Tail(queue) /\ UNCHANGED <<pc, runErr>>
                 ELSE Return(ReportResult(ErrOther))
              /\ failed' = [rec |-> a.rec, from |-> a.from]
              /\ UNCHANGED <<inflight, position, pubLog>>
    /\ UNCHANGED <<now, cancelled, store, initStore, acked, start, loaded,
                   waitUntil, failures, saveBit, lastRequest, calls, listed,
                   statusMsg,
                   auxVars>>

(* Variant: after a failed publish of the error event the status keeps the *)
(* message of the publish failure.                                         *)
DegradedMessagesPublishLast(err, published) ==
    IF published THEN <<err>> ELSE <<"failed to publish error">>

(* Lines 136-140: the messages Run gives to the status reporter with the  *)
(* status Degraded: that of a failed publish of the error event, if it    *)
(* failed, and then, in any case, the error of the run attempt.           *)
DegradedMessages(err, published) ==
    IF published THEN <<err>> ELSE <<"failed to publish error", err>>

(* Lines 125-127: nil or a cancellation error ends Run with nil. *)
(* Lines 128-143: any other error is published as a pipeline_error event,  *)
(* the status becomes Degraded and Run waits ErrorRetryInterval.           *)
(* No case: the loop goes on.                                              *)
RunSwitch ==
    /\ pc = "returned"
    /\ LET case == SwitchCase(runErr, CancelationErr)
       IN  CASE case = "return" ->
                  /\ pc' = "done"
                  /\ UNCHANGED <<inflight, status, waitUntil, failures, pubBit,
                                 statusMsg>>
             [] case = "degraded" ->
                  /\ pubBit' = Flip(pubBit)
                  /\ \/ /\ Len(inflight) < MaxInflight
                        /\ inflight' = Append(inflight, ErrorEvent(runErr))
                        /\ statusMsg' = DegradedMessages(runErr, TRUE)
                     \/ /\ UNCHANGED inflight
                        /\ statusMsg' = DegradedMessages(runErr, FALSE)
                  /\ status' = "Degraded"
                  /\ failures' = Min(failures + 1, MaxFailures)
                  /\ waitUntil' = now + ErrorRetryInterval
                  /\ pc' = "wait"
             [] OTHER ->
                  /\ pc' = "loop"
                  /\ UNCHANGED <<inflight, status, waitUntil, failures, pubBit,
                                 statusMsg>>
    /\ UNCHANGED <<now, cancelled, store, initStore, acked, runErr, start,
                   loaded, queue, position, failed, saveBit,
                   lastRequest, calls, listed, pubLog, auxVars>>

(* timed.Wait(ctx.Cancelation, ErrorRetryInterval) returns. *)
WaitDone ==
    /\ pc = "wait"
    /\ WaitOver(waitUntil)
    /\ pc' = "loop"
    /\ UNCHANGED <<now, cancelled, store, initStore, inflight, acked, runErr,
                   start, loaded, queue, position, status, waitUntil, failures,
                   failed, pubBit, saveBit,
                   lastRequest, logVars, auxVars>>

Next ==
    \/ Tick
    \/ Cancel
    \/ Ack
    \/ RunStart
    \/ LoopCheck
    \/ RunSetupFails
    \/ RunBegin
    \/ PollCancelled
    \/ PollDone
    \/ PollList
    \/ PollReport
    \/ RunSwitch
    \/ WaitDone

Spec == Init /\ [][Next]_vars

----------------------------------------------------------------------------
(* Properties. *)

CpBefore(cp, r) == PosBefore(cp.Timestamp, cp.Line, r[1], r[2])
AttemptJustBegun == pc = "poll" /\ queue = <<InitialAction(start)>>

(* C1: the timestamp of the persisted checkpoint never decreases from one *)
(* checkpoint write to the next, whatever attempts, publishes,            *)
(* acknowledgments, failures and retries happen.                          *)
C1_CheckpointNeverDecreases ==
    [][(store.kind = "cp" /\ store'.kind = "cp")
         => store'.cp.Timestamp >= store.cp.Timestamp]_vars

(* C2: the persisted checkpoint is the one the process started with or the *)
(* cursor of a record whose event was acknowledged; it is never that of a  *)
(* record only fetched, or one whose publish failed.                       *)
C2_CheckpointOnlyAcked ==
    \/ store = initStore
    \/ /\ store.kind = "cp"
       /\ Rec(store.cp.Timestamp, store.cp.Line) \in acked

(* A checkpoint was written while a later record's publish had failed. *)
C2_Witness ==
    /\ store # initStore
    /\ failed.rec # NoRec
    /\ CpBefore(store.cp, failed.rec)

(* C3, as claimed: after a failed publish of a record of page [a,b), the *)
(* next run attempt starts its list queries at or before a.              *)
C3_NextRunRefetchesWindow ==
    (AttemptJustBegun /\ failed.rec # NoRec)
        => InitialAction(start).from <= failed.from

(* A record is in the scope of the attempt that starts from st: its list *)
(* queries reach it and its cursor does not skip it.                     *)
Refetched(st, r) ==
    /\ InitialAction(st).from <= r[1]
    /\ CpBefore(InitialAction(st).cursor, r)

(* The records of the failed page from the failed record on. *)
FailedRest ==
    {r \in Records : /\ failed.from <= r[1]
                     /\ r[1] < failed.from + PageSpan
                     /\ ~PosBefore(r[1], r[2], failed.rec[1], failed.rec[2])}

(* C3, amended: a failed publish makes Report end the attempt with that    *)
(* error and writes nothing; the next attempt starts from the persisted    *)
(* checkpoint, and so re-fetches every record of the page from the failed  *)
(* one on, except those the persisted checkpoint already covers and those  *)
(* not newer than now - maxRetention.                                      *)
C3_FailedPublishReplayed ==
    /\ [][(failed' # failed /\ failed'.rec # NoRec)
            => /\ runErr' = ErrOther
               /\ pc' = "returned"
               /\ store' = store
               /\ inflight' = inflight
               /\ saveBit' = saveBit]_vars
    /\ [](  (AttemptJustBegun /\ failed.rec # NoRec)
            => \A r \in FailedRest :
                  \/ Refetched(start, r)
                  \/ (loaded.state.kind = "cp" /\ ~CpBefore(loaded.state.cp, r))
                  \/ r[1] <= loaded.now - MaxRetention)

(* The attempt after a failed publish has begun and the failed record is *)
(* in its scope.                                                         *)
C3_Witness ==
    /\ AttemptJustBegun
    /\ failed.rec # NoRec
    /\ Refetched(start, failed.rec)

C5_NoStateStartsAtRetention ==
    (loaded.now # ZeroTime /\ loaded.state.kind \in {"none", "corrupt"})
    => /\ start.Timestamp = loaded.now - MaxRetention
       /\ InitialAction(start).from = loaded.now - MaxRetention
       /\ (AttemptJustBegun
             => queue = <<ListAction(start, loaded.now - MaxRetention)>>)

(* An attempt polls after its saved state failed to unpack. *)
C5_Witness ==
    /\ AttemptJustBegun
    /\ loaded.state.kind = "corrupt"

(* C6: an attempt that ends with an error other than a cancellation error *)
(* is followed by the retry wait and, unless cancelled, by another        *)
(* attempt, however many attempts failed before; Run ends only when       *)
(* cancelled or on nil or a cancellation error.                           *)
C6_RetriesWithoutBound ==
    /\ [][(pc = "returned" /\ runErr # ErrNil /\ ~IsCanceled(runErr)
             /\ pc' # pc) => pc' = "wait"]_vars
    /\ [][(pc = "wait" /\ pc' # pc) => pc' = "loop"]_vars
    /\ [][(pc = "loop" /\ ~cancelled /\ pc' # pc) => pc' = "run"]_vars
    /\ [](pc = "done" => (cancelled \/ runErr = ErrNil \/ IsCanceled(runErr)))

(* A third attempt starts after two consecutive failures. *)
C6_Witness ==
    /\ pc = "run"
    /\ failures >= 2
    /\ ~cancelled

(* C7: on nil or an error that is or wraps context.Canceled, Run returns  *)
(* nil at once: no publish call, no status update, no wait.               *)
C7_NilOrCanceledReturns ==
    [][(pc = "returned" /\ (runErr = ErrNil \/ IsCanceled(runErr)) /\ pc' # pc)
         => /\ pc' = "done"
            /\ pubBit' = pubBit
            /\ inflight' = inflight
            /\ status' = status
            /\ waitUntil' = waitUntil]_vars

(* Run has returned on an error wrapping context.Canceled. *)
C7_Witness ==
    /\ pc = "done"
    /\ runErr = ErrWrapped
    /\ ~cancelled

(* C8, as claimed: after a successful attempt, not cancelled, the stream *)
(* goes on to another attempt.                                           *)
C8_SuccessLoopsBack ==
    [][(pc = "returned" /\ runErr = ErrNil /\ ~cancelled /\ pc' # pc)
         => pc' \in {"loop", "run", "wait"}]_vars

(* C8, amended: when an attempt returns nil, Run returns nil and the      *)
(* stream stops: no further attempt, publish or wait follows.             *)
C8_SuccessEndsRun ==
    /\ [][(pc = "returned" /\ runErr = ErrNil /\ pc' # pc) => pc' = "done"]_vars
    /\ [][pc = "done"
            => (pc' = "done" /\ pubBit' = pubBit /\ queue' = queue
                /\ start' = start)]_vars

(* Run has returned after a successful attempt, the stream not cancelled. *)
C8_Witness ==
    /\ pc = "done"
    /\ runErr = ErrNil
    /\ ~cancelled

(* C9: a failed attempt is reported (a publish call, the status Degraded), *)
(* Run waits ErrorRetryInterval unless cancelled, and the next attempt     *)
(* starts from the persisted checkpoint as initCheckpoint loads it, not    *)
(* from the position the failed attempt had reached.                       *)
C9_RetryFromSavedCheckpoint ==
    /\ [][(pc = "returned" /\ pc' = "wait")
            => /\ pubBit' # pubBit
               /\ status' = "Degraded"
               /\ waitUntil' = now + ErrorRetryInterval]_vars
    /\ [][(pc = "wait" /\ pc' # pc)
            => (pc' = "loop" /\ (cancelled \/ now >= waitUntil))]_vars
    /\ [][(pc = "run" /\ pc' = "poll")
            => /\ IF store.kind = "cp"
                     /\ store.cp.Timestamp >= now - MaxRetention
                  THEN start' = store.cp
                  ELSE start'.Timestamp = now - MaxRetention
               /\ queue' = <<InitialAction(start')>>]_vars

(* A retry has started from the saved checkpoint while an event of the *)
(* failed attempt, further on, is still unacknowledged.                *)
C9_Witness ==
    /\ AttemptJustBegun
    /\ failures > 0
    /\ loaded.state.kind = "cp"
    /\ start = loaded.state.cp
    /\ inflight # <<>>
    /\ inflight[1].cursor.has
    /\ CpBefore(start, inflight[1].rec)

(* C10: once the stream is cancelled, no publish call is made and no *)
(* checkpoint is written.                                            *)
C10_NoMutationAfterCancel ==
    [][cancelled => (pubBit' = pubBit /\ saveBit' = saveBit)]_vars

(* C11: when a run attempt has failed with an error that is no            *)
(* cancellation and the stream is not cancelled, Run calls pub.Publish    *)
(* exactly once, with an event of the fields error.message and            *)
(* event.kind = pipeline_error and a nil cursor, sets the status Degraded *)
(* and only then waits; the acknowledgment of that event writes no        *)
(* checkpoint.                                                            *)
C11_ErrorEventPerFailure ==
    [][/\ (pc = "returned" /\ runErr # ErrNil /\ ~IsCanceled(runErr)
             /\ ~cancelled /\ pc' # pc)
          => /\ pubBit' = Flip(pubBit)
             /\ inflight' \in
                  {inflight,
                   Append(inflight,
                          [rec |-> NoRec, cursor |-> NilCursor,
                           fields |-> {<<"error.message", runErr>>,
                                       <<"event.kind", "pipeline_error">>}])}
             /\ status' = "Degraded"
             /\ pc' = "wait"
             /\ store' = store
       /\ (inflight # <<>> /\ inflight' = Tail(inflight)
             /\ Head(inflight).rec = NoRec)
          => (store' = store /\ saveBit' = saveBit)]_vars

(* Run waits, Degraded, with its error event in the hands of the publisher. *)
C11_Witness ==
    /\ pc = "wait"
    /\ ~cancelled
    /\ status = "Degraded"
    /\ inflight # <<>>
    /\ inflight[Len(inflight)].rec = NoRec
    /\ <<"event.kind", "pipeline_error">> \in inflight[Len(inflight)].fields

(* C12: every run attempt that returns an error is followed by a publish *)
(* call or leaves the status Degraded before Run ends or goes on; stated *)
(* here of a stream that is not cancelled.                               *)
C12_UncancelledFailureReported ==
    [][(pc = "returned" /\ runErr # ErrNil /\ ~cancelled /\ pc' # pc)
         => (pubBit' # pubBit \/ status' = "Degraded")]_vars

(* C28: the initCheckpoint of a run attempt raises the stale-state warning *)
(* exactly when a state is saved, it unpacks and its timestamp is before  *)
(* the clock minus the retention; not when nothing is saved, nor when the *)
(* saved state does not unpack, nor at the limit itself.                  *)
C28_StaleWarning ==
    loaded.now # ZeroTime
      => (WarnsStale(loaded.state, loaded.now)
            <=> /\ loaded.state.kind = "cp"
                /\ loaded.state.cp.Timestamp < loaded.now - MaxRetention)

(* A run attempt has loaded a saved checkpoint older than the retention, *)
(* raised the warning and starts from the limit.                         *)
C28_Witness ==
    /\ loaded.now # ZeroTime
    /\ loaded.state.kind = "cp"
    /\ loaded.state.cp.Timestamp < loaded.now - MaxRetention
    /\ WarnsStale(loaded.state, loaded.now)
    /\ start.Timestamp = loaded.now - MaxRetention
    /\ pc = "poll"

(* The start of a run attempt over any saved state, a checkpoint of a *)
(* time still to come included (the clock has been set back).        *)
LoadInit ==
    /\ store \in {NoState, CorruptState}
                \cup {Saved(Checkpoint(t, k, st)) :
                        t \in 0..(MaxTime + 1), k \in Lines, st \in 0..(MaxTime + 1)}
    /\ (store.kind = "cp" => store.cp.StartTime <= store.cp.Timestamp
                              /\ store.cp.Timestamp < store.cp.StartTime + PageSpan)
    /\ StreamFresh
    /\ AuxIdle

LoadNext ==
    \/ Tick
    \/ RunStart
    \/ LoopCheck
    \/ RunBegin

SpecLoad == LoadInit /\ [][LoadNext]_vars

(* C33: a saved checkpoint whose timestamp is at or after the clock minus *)
(* the retention, at the limit itself or in the future, is the checkpoint *)
(* the attempt starts from, unchanged; and whatever is saved, the         *)
(* timestamp the attempt starts from is not before that limit.            *)
C33_InWindowUnchanged ==
    loaded.now # ZeroTime
      => /\ (loaded.state.kind = "cp"
               /\ loaded.state.cp.Timestamp >= loaded.now - MaxRetention)
              => start = loaded.state.cp
         /\ start.Timestamp >= loaded.now - MaxRetention

(* An attempt has loaded a checkpoint of a time still to come and starts *)
(* from it.                                                              *)
C33_Witness ==
    /\ pc = "poll"
    /\ loaded.state.kind = "cp"
    /\ loaded.state.cp.Timestamp > loaded.now
    /\ start = loaded.state.cp

(* C34: when the checkpoint loaded is older than the retention, the first *)
(* list action of the attempt starts at the retention limit, not at the  *)
(* StartTime of the stale checkpoint, and its cursor has no line of the  *)
(* stale checkpoint.                                                     *)
C34_StalePositionDropped ==
    (loaded.state.kind = "cp"
       /\ loaded.state.cp.Timestamp < loaded.now - MaxRetention)
    => /\ InitialAction(start).from = loaded.now - MaxRetention
       /\ InitialAction(start).cursor.Line = 0

(* A step in which the poller makes an upstream call: it executes the list *)
(* action at the head of its queue.                                        *)
ListAtHead == pc = "poll" /\ queue # <<>> /\ Head(queue).type = "list"
UpstreamCall == ListAtHead /\ ~cancelled /\ queue' # queue

(* C16: in one poller run an upstream call is made no sooner than the     *)
(* delay run computed after the call before it, and the first call of the *)
(* run can be made at once.                                               *)
C16_RequestsSpaced ==
    /\ [][UpstreamCall
            => /\ lastRequest = NoCall \/ now - lastRequest >= Delay
               /\ lastRequest' = now]_vars
    /\ []((ListAtHead /\ ~cancelled /\ lastRequest = NoCall) => ENABLED PollList)

(* The poller has made its second upstream call: the reports of the second *)
(* page are in its queue.                                                  *)
C16_Witness ==
    /\ pc = "poll"
    /\ queue # <<>>
    /\ Head(queue).type = "report"
    /\ Head(queue).from = InitialAction(start).from + PageSpan
    /\ lastRequest # NoCall

(* C17: a cancelled stream that waits, for the retry after a failed       *)
(* attempt or in the poller for its request interval, can leave the wait  *)
(* at once, whatever is left of the interval, and Run then returns with   *)
(* its next step: from the retry wait through the loop condition, from    *)
(* the poller through the cancellation error and the switch.              *)
C17_CancelInterruptsWaits ==
    /\ []((cancelled /\ pc = "wait") => ENABLED WaitDone)
    /\ []((cancelled /\ pc = "poll") => ENABLED PollCancelled)
    /\ []((cancelled /\ pc = "loop") => ENABLED LoopCheck)
    /\ []((cancelled /\ pc = "returned") => ENABLED RunSwitch)
    /\ [][(cancelled /\ pc' # pc)
            => CASE pc = "wait" -> pc' = "loop"
                 [] pc = "loop" -> pc' = "done"
                 [] pc = "poll" -> pc' = "returned" /\ runErr' = ErrCanceled
                 [] pc = "returned" /\ runErr = ErrCanceled -> pc' = "done"
                 [] OTHER -> TRUE]_vars

(* Run has returned from a retry wait whose interval has not passed. *)
C17_Witness ==
    /\ cancelled
    /\ pc = "done"
    /\ failures > 0
    /\ runErr = ErrOther
    /\ now < waitUntil

(* C19: when a run attempt returns nil, the upstream having answered every *)
(* list query and the last page having announced no further one, the       *)
(* attempt has published exactly the records the upstream returned, page   *)
(* after page and in the order of each page, and has asked for each page   *)
(* once, from the first page on in steps of one page.                      *)
C19_FullRunPublishesAll ==
    (pc = "returned" /\ runErr = ErrNil)
      => /\ pubLog = listed
         /\ \A i, j \in 1..Len(pubLog) :
              i < j => PosBefore(pubLog[i][1], pubLog[i][2],
                                 pubLog[j][1], pubLog[j][2])
         /\ Len(calls) >= 1
         /\ \A i \in 1..Len(calls) :
              calls[i] = InitialAction(start).from + (i - 1) * PageSpan
         /\ calls[Len(calls)] + PageSpan >= lastRequest

(* A run attempt of three pages has returned nil. *)
C19_Witness ==
    /\ pc = "returned"
    /\ runErr = ErrNil
    /\ Len(calls) = 3
    /\ Len(pubLog) > LinesPerBlob * PageSpan

----------------------------------------------------------------------------
(* o365input.Test, lines 95-107: a token provider is made for the tenant *)
(* of the stream and a token is asked of it. Test is given neither the   *)
(* cursor nor the publisher.                                             *)
TokenOutcomes == {"token", "no provider", "no token"}

TestResult(outcome) == IF outcome = "token" THEN ErrNil ELSE ErrOther

(* Variant: Test loads the checkpoint as a run attempt does and saves it. *)
TestStoreLoaded == Saved(InitCheckpoint(CursorState, now))

(* The persisted state after Test: the one before it. *)
TestStore == store

Test ==
    /\ \E outcome \in TokenOutcomes :
         tested' = <<TestResult(outcome), Flip(tested[2])>>
    /\ store' = TestStore
    /\ UNCHANGED <<now, cancelled, initStore, inflight, acked, pc, runErr,
                   start, loaded, queue, position, status, waitUntil, failures,
                   failed, pubBit, saveBit, lastRequest, logVars,
                   notTest>>

TestNext ==
    \/ Test
    \/ Tick
    \/ Cancel

SpecTest == Init /\ [][TestNext]_vars

(* C14: a call of Test, whether it gets the token or not, leaves the      *)
(* persisted checkpoint as it was, reads no checkpoint, calls pub.Publish *)
(* for no event and leaves no event with the publisher.                   *)
C14_TestLeavesCheckpoint ==
    [][tested' # tested
         => /\ store' = store
            /\ loaded' = loaded
            /\ pubBit' = pubBit
            /\ saveBit' = saveBit
            /\ inflight' = inflight]_vars

(* Test has failed on a stream that has a saved checkpoint, here a stale *)
(* one a run attempt would clamp.                                        *)
C14_Witness ==
    /\ tested[1] = ErrOther
    /\ store.kind = "cp"
    /\ store.cp.Timestamp < now - MaxRetention
    /\ store = initStore

----------------------------------------------------------------------------
(* Two calls of o365input.Run that are given the same cancellation, the  *)
(* same errors of their run attempts and the same answers of the         *)
(* publisher: one has ctx.StatusReporter nil, the other has a reporter,  *)
(* which takes a status or drops it.                                     *)
MaxOps == 5

(* ctx.StatusReporter *)
StatusReporterOf(side) == IF side = "absent" THEN "nil" ELSE "reporter"

(* Variant: Run uses ctx.StatusReporter as it is. *)
ReporterUnchecked(r) == r

(* Run, lines 110-113: a nil reporter is replaced by noopReporter. *)
Reporter(r) == IF r = "nil" THEN "noop" ELSE r

(* stat.UpdateStatus: a call on a nil interface panics, noopReporter does *)
(* nothing (lines 305-307), a reporter receives the status.               *)
Panics(side) == Reporter(StatusReporterOf(side)) = "nil"
UpdateStatus(side, st, delivered) ==
    IF Reporter(StatusReporterOf(side)) = "reporter" /\ delivered
    THEN st
    ELSE pairStatus[side]

PairSide(s) ==
    [pc |-> pairPc[s], err |-> pairErr[s], ops |-> pairOps[s],
     status |-> pairStatus[s]]

(* Both Runs take the step F when they are at position p. *)
PairStep(p, F(_)) ==
    /\ \E s \in Sides : pairPc[s] = p
    /\ pairPc' = [s \in Sides |-> IF pairPc[s] = p THEN F(s).pc ELSE pairPc[s]]
    /\ pairErr' = [s \in Sides |-> IF pairPc[s] = p THEN F(s).err ELSE pairErr[s]]
    /\ pairOps' = [s \in Sides |-> IF pairPc[s] = p THEN F(s).ops ELSE pairOps[s]]
    /\ pairStatus' = [s \in Sides |->
                        IF pairPc[s] = p THEN F(s).status ELSE pairStatus[s]]
    /\ UNCHANGED <<now, cancelled, store, initStore, inflight, acked, pc,
                   runErr, start, loaded, queue, position, status, waitUntil,
                   failures, failed, pubBit, saveBit, lastRequest, logVars,
                   notPair>>

Panicked(s) == [PairSide(s) EXCEPT !.pc = "panic"]

(* Lines 110-114. *)
PairRunStart ==
    \E delivered \in BOOLEAN :
      PairStep("start",
               LAMBDA s :
                 IF Panics(s)
                 THEN Panicked(s)
                 ELSE [PairSide(s) EXCEPT
                         !.pc = "loop",
                         !.status = UpdateStatus(s, "Starting", delivered)])

(* Line 123 and line 147. *)
PairLoopCheck ==
    PairStep("loop",
             LAMBDA s :
               IF CancelationErr = ErrNil
               THEN [PairSide(s) EXCEPT !.pc = "run"]
               ELSE [PairSide(s) EXCEPT
                       !.pc = "done", !.ops = Append(@, "return nil")])

(* Line 124: a run attempt; its Report actions give the reporter Running *)
(* or Degraded, or it reports nothing.                                   *)
AttemptErrors ==
    {ErrNil, ErrOther, ErrWrapped} \cup (IF cancelled THEN {ErrCanceled} ELSE {})

PairAttempt ==
    /\ \A s \in Sides : Len(pairOps[s]) < MaxOps
    /\ \E err \in AttemptErrors, reported \in {"none", "Running", "Degraded"},
          delivered \in BOOLEAN :
         PairStep("run",
                  LAMBDA s :
                    IF reported # "none" /\ Panics(s)
                    THEN Panicked(s)
                    ELSE [pc |-> "returned",
                          err |-> err,
                          ops |-> Append(pairOps[s], "attempt"),
                          status |-> IF reported = "none"
                                     THEN pairStatus[s]
                                     ELSE UpdateStatus(s, reported, delivered)])

(* Lines 125-144. *)
PairSwitch ==
    \E delivered \in BOOLEAN :
      PairStep("returned",
               LAMBDA s :
                 LET case == SwitchCase(pairErr[s], CancelationErr)
                 IN  CASE case = "return" ->
                            [PairSide(s) EXCEPT
                               !.pc = "done", !.ops = Append(@, "return nil")]
                       [] case = "degraded" ->
                            IF Panics(s)
                            THEN [Panicked(s) EXCEPT !.ops = Append(@, "publish")]
                            ELSE [PairSide(s) EXCEPT
                                    !.pc = "wait",
                                    !.ops = @ \o <<"publish", "wait">>,
                                    !.status = UpdateStatus(s, "Degraded", delivered)]
                       [] OTHER -> [PairSide(s) EXCEPT !.pc = "loop"])

(* Line 143 returns. *)
PairWaitDone ==
    PairStep("wait", LAMBDA s : [PairSide(s) EXCEPT !.pc = "loop"])

PairNext ==
    \/ Cancel
    \/ PairRunStart
    \/ PairLoopCheck
    \/ PairAttempt
    \/ PairSwitch
    \/ PairWaitDone

PairInit == StreamIdle /\ AuxIdle

SpecPair == PairInit /\ [][PairNext]_vars

(* C13: the Run without a status reporter and the Run with one are at the *)
(* same position, have had the same errors and have made the same run     *)
(* attempts, publishes, waits and returns, whatever statuses the reporter *)
(* took or dropped.                                                       *)
C13_ReporterNeverInfluences ==
    /\ pairPc["absent"] = pairPc["present"]
    /\ pairErr["absent"] = pairErr["present"]
    /\ pairOps["absent"] = pairOps["present"]
    /\ pairPc["absent"] # "panic"

(* Both Runs have returned after a failed attempt, its error event and *)
(* the wait; only one reporter has seen the status Degraded.           *)
C13_Witness ==
    /\ pairPc = [s \in Sides |-> "done"]
    /\ \E i \in 1..Len(pairOps["present"]) : pairOps["present"][i] = "wait"
    /\ pairStatus["present"] = "Degraded"
    /\ pairStatus["absent"] = "none"

----------------------------------------------------------------------------
(* apiEnvironment.toBeatEvent, lines 272-303, and the callback of Report,  *)
(* line 249. A record is a document with or without the keys CreationTime *)
(* and Id; a value is a string or something else; a string under          *)
(* CreationTime is a date in one of the API's formats or is not.          *)
MaxIds == 2
Missing == <<"missing", "", 0>>
NotAString == <<"number", "", 0>>
Str(tag, n) == <<"string", tag, n>>
EmptyString == Str("", 0)
Junk == Str("junk", 0)
DateString(t) == Str("date", t)
CreationTimes == {Missing, NotAString, Junk} \cup {DateString(t) : t \in Times}
Ids == {Missing, NotAString, EmptyString} \cup {Str("id", i) : i \in 1..MaxIds}
Docs == [CreationTime : CreationTimes, Id : Ids]
Configs == [SetIDFromAuditRecord : BOOLEAN, PreserveOriginalEvent : BOOLEAN]

(* getString(doc, key): the value when the key is there and holds a string. *)
GetString(value) ==
    IF value[1] = "string"
    THEN [err |-> FALSE, s |-> value]
    ELSE [err |-> TRUE, s |-> EmptyString]

(* getDateKey(doc, key, formats): the time a string value parses to. *)
GetDateKey(value) ==
    LET str == GetString(value)
    IN  IF ~str.err /\ str.s[2] = "date"
        THEN [err |-> FALSE, ts |-> str.s[3]]
        ELSE [err |-> TRUE, ts |-> ZeroTime]

(* Variant: the timestamp stays what getDateKey returned with its error. *)
EventTimestampUnset(doc, clock) == GetDateKey(doc.CreationTime).ts

(* Lines 274-278. *)
EventTimestamp(doc, clock) ==
    LET date == GetDateKey(doc.CreationTime)
    IN  IF date.err THEN clock ELSE date.ts
EventErrs(doc) ==
    IF GetDateKey(doc.CreationTime).err
    THEN <<"failed parsing CreationTime">>
    ELSE <<>>

(* Variant: the identifier is set whatever the configuration says. *)
EventIDUnconditional(doc, config) ==
    LET id == GetString(doc.Id)
    IN  IF ~id.err /\ id.s # EmptyString THEN id.s ELSE EmptyString

(* Lines 285-289: b.SetID(id); the empty string stands for no identifier. *)
EventID(doc, config) ==
    LET id == GetString(doc.Id)
    IN  IF config.SetIDFromAuditRecord /\ ~id.err /\ id.s # EmptyString
        THEN id.s
        ELSE EmptyString

(* The fields of the event: the document under the prefix o365audit, the *)
(* raw record under event.original and the errors under error.message;  *)
(* an empty sequence stands for a key that is not there.                *)
ToBeatEvent(raw, doc, config, clock) ==
    [Timestamp |-> EventTimestamp(doc, clock),
     ID |-> EventID(doc, config),
     Fields |-> [o365audit |-> doc,
                 original |-> IF config.PreserveOriginalEvent
                              THEN <<raw>>
                              ELSE <<>>,
                 errorMessage |-> EventErrs(doc)]]

HasErrorMessage(event) == event.Fields.errorMessage # <<>>

(* Report, line 249: the event of the record goes to the callback. *)
EventReport ==
    /\ evOut = <<>>
    /\ evOut' = Append(evOut, ToBeatEvent(evDoc, evDoc, evConfig, now))
    /\ UNCHANGED <<now, cancelled, store, initStore, inflight, acked, pc,
                   runErr, start, loaded, queue, position, status, waitUntil,
                   failures, failed, pubBit, saveBit, lastRequest, logVars,
                   evDoc, evConfig, notEvent>>

EventNext ==
    \/ Tick
    \/ EventReport

EventInit ==
    /\ StreamIdle
    /\ TestIdle
    /\ PairIdle
    /\ PollerIdle
    /\ EnrichIdle
    /\ FetchIdle
    /\ RaceIdle
    /\ TenantIdle
    /\ CacheIdle
    /\ ConfigIdle
    /\ evDoc \in Docs
    /\ evConfig \in Configs
    /\ evOut = <<>>

SpecEvent == EventInit /\ [][EventNext]_vars

(* C15: the report of a record hands exactly one event to the callback;   *)
(* when CreationTime is missing, is no string or does not parse, the      *)
(* timestamp of the event is the current time and the event has the field *)
(* error.message; when it parses, the timestamp is the parsed time and    *)
(* the event has no error.message.                                        *)
C15_OneEventPerRecord ==
    [][evOut' # evOut
         => /\ Len(evOut') = 1
            /\ LET e == evOut'[1]
                   ct == evDoc.CreationTime
                   parses == \E t \in Times : ct = DateString(t)
               IN  /\ e.Fields.o365audit = evDoc
                   /\ parses => /\ ct = DateString(e.Timestamp)
                                /\ ~HasErrorMessage(e)
                   /\ ~parses => /\ e.Timestamp = now
                                 /\ HasErrorMessage(e)]_vars

(* A record whose CreationTime does not parse has been reported. *)
C15_Witness ==
    /\ Len(evOut) = 1
    /\ evDoc.CreationTime = Junk
    /\ HasErrorMessage(evOut[1])
    /\ evOut[1].Timestamp \in Now0..MaxTime

(* C27: the event has an identifier exactly when SetIDFromAuditRecord is  *)
(* enabled and the Id of the record is a non-empty string, the identifier *)
(* is that Id, and the event made of the same record at any other time,   *)
(* as in a replay, has the same identifier.                               *)
C27_IdFromRecord ==
    evOut # <<>>
      => LET e == evOut[1]
             natural == evDoc.Id \in {Str("id", i) : i \in 1..MaxIds}
             set == evConfig.SetIDFromAuditRecord /\ natural
         IN  /\ (e.ID # EmptyString) <=> set
             /\ set => e.ID = evDoc.Id
             /\ \A t \in Times :
                  ToBeatEvent(evDoc, evDoc, evConfig, t).ID = e.ID

(* A record with an Id has been reported with SetIDFromAuditRecord     *)
(* enabled, at a time other than the one a replay could be reported at. *)
C27_Witness ==
    /\ Len(evOut) = 1
    /\ evConfig.SetIDFromAuditRecord
    /\ evOut[1].ID = Str("id", 1)
    /\ evDoc.CreationTime = Junk
    /\ now > evOut[1].Timestamp

----------------------------------------------------------------------------
(* The poller on opaque actions: poller.Run(action) takes the actions of  *)
(* its queue one at a time; an action fails, or succeeds with follow-up   *)
(* actions, which are enqueued. Actions are numbered as they are enqueued. *)
MaxActions == 8
MaxFollowUps == 2

PollerFrame ==
    UNCHANGED <<now, store, initStore, inflight, acked, pc, runErr, start,
                loaded, queue, position, status, waitUntil, failures, failed,
                pubBit, saveBit, lastRequest, logVars, notPoller>>

(* The cancellation is checked before each action. *)
PollerCancelled ==
    /\ gResult = "running"
    /\ gRunning = {}
    /\ cancelled
    /\ gResult' = ErrCanceled
    /\ UNCHANGED <<cancelled, gQueue, gCount, gLast, gRunning>>
    /\ PollerFrame

PollerTake ==
    /\ gResult = "running"
    /\ gRunning = {}
    /\ ~cancelled
    /\ gQueue # <<>>
    /\ gRunning' = {Head(gQueue)}
    /\ gLast' = Head(gQueue)
    /\ gQueue' = Tail(gQueue)
    /\ UNCHANGED <<cancelled, gCount, gResult>>
    /\ PollerFrame

PollerActionFails ==
    /\ gRunning # {}
    /\ gRunning' = {}
    /\ gResult' = ErrOther
    /\ UNCHANGED <<cancelled, gQueue, gCount, gLast>>
    /\ PollerFrame

PollerActionSucceeds ==
    /\ gRunning # {}
    /\ gRunning' = {}
    /\ \E k \in 0..MaxFollowUps :
         /\ gCount + k <= MaxActions
         /\ gQueue' = Enqueue(gQueue, [i \in 1..k |-> gCount + i])
         /\ gCount' = gCount + k
    /\ UNCHANGED <<cancelled, gLast, gResult>>
    /\ PollerFrame

PollerDone ==
    /\ gResult = "running"
    /\ gRunning = {}
    /\ ~cancelled
    /\ gQueue = <<>>
    /\ gResult' = ErrNil
    /\ UNCHANGED <<cancelled, gQueue, gCount, gLast, gRunning>>
    /\ PollerFrame

PollerNext ==
    \/ Cancel
    \/ PollerCancelled
    \/ PollerTake
    \/ PollerActionFails
    \/ PollerActionSucceeds
    \/ PollerDone

SpecPoller == PairInit /\ [][PollerNext]_vars

(* C18: the poller has at most one action in execution; it takes the      *)
(* actions in the order they were enqueued, so the follow-up actions of   *)
(* an action come after every action enqueued before them; its run ends   *)
(* with nil only when the queue is empty, every action enqueued has been  *)
(* executed and none has failed, and an uncancelled poller whose queue    *)
(* has become empty without a failure ends with nil and nothing else.     *)
C18_FifoUntilEmpty ==
    /\ [](Cardinality(gRunning) <= 1)
    /\ [][gLast' # gLast => gLast' = gLast + 1]_vars
    /\ [](gResult = ErrNil => (gQueue = <<>> /\ gRunning = {} /\ gLast = gCount))
    /\ []((gResult = "running" /\ gQueue = <<>> /\ gRunning = {} /\ ~cancelled)
            => ENABLED PollerDone)
    /\ [][(gResult = "running" /\ gQueue = <<>> /\ gRunning = {} /\ ~cancelled
             /\ gResult' # gResult)
            => gResult' = ErrNil]_vars

(* Follow-up actions were enqueued behind waiting ones, all actions have *)
(* been executed and the run has ended with nil.                         *)
C18_Witness ==
    /\ gResult = ErrNil
    /\ gLast = MaxActions
    /\ gQueue = <<>>

----------------------------------------------------------------------------
(* add_docker_metadata: the PID cache d.cgroups, made by                  *)
(* lazyCgroupCacheInit (lines 134-143) and used by lookupContainerIDByPID *)
(* (lines 249-293). The cache itself (libbeat/common) is the Bounded      *)
(* Metadata Cache: Get does not refresh an entry, Put resets its age, the *)
(* janitor sweeps at its interval, evicts the entries whose TTL has       *)
(* elapsed and calls the eviction listener for each.                      *)
(* cgroupCacheExpiration (line 47) and the janitor's interval (line 141), *)
(* scaled to the clock of the model.                                     *)
CgroupCacheExpiration == 2
JanitorInterval == 1
MaxCacheTime == 4
ContainerIds == {"", "c1", "c2"}

(* The cgroups of a process: they cannot be read because the process does *)
(* not exist, because of another error, or they name a container or none. *)
CgroupReads == {"not exist", "error"} \cup ContainerIds

(* getContainerIDFromCgroups on what getProcessCgroups returned with its *)
(* error: the empty path list of a failed read names no container.       *)
ContainerIdOf(read) == IF read = "error" THEN "" ELSE read

(* Variant: the cache is made without a removal listener. *)
NoEvictionListener == FALSE

(* lazyCgroupCacheInit, lines 137-140: the cache has a removal listener. *)
EvictionListener == TRUE

(* Variant: a Get renews the age of the entry it returns. *)
GetTouchRefresh(entry) == [entry EXCEPT !.at = ctime]

(* Cache.Get leaves the entry it returns as it is. *)
GetTouch(entry) == entry

CacheGet(pid) ==
    [found |-> cgroups.made /\ cgroups.items[pid].has,
     v |-> IF cgroups.made THEN cgroups.items[pid].v ELSE ""]
Expired(entry) == entry.has /\ ctime - entry.at >= CgroupCacheExpiration

(* Cache.Put: the entry of the key is replaced and its age starts anew. *)
CachePut(items, pid, v) ==
    [items EXCEPT ![pid] = [has |-> TRUE, v |-> v, at |-> ctime]]

(* Cache.StartJanitor and Cache.StopJanitor. *)
StartJanitor(j) == [j EXCEPT !.running = TRUE, !.lastSweep = ctime]
StopJanitor(j) == [j EXCEPT !.running = FALSE]

(* The entries a sweep removes beside the expired ones: with a maximum   *)
(* entry count, the oldest of the others until the count is not exceeded. *)
Live(items) == {p \in Pids : items[p].has /\ ~Expired(items[p])}
Older(items, p, q) ==
    \/ items[p].at < items[q].at
    \/ (items[p].at = items[q].at /\ p < q)
(* Variant: the maximum entry count is not enforced. *)
OverCapacityKept(items, max) == {}

OverCapacity(items, max) ==
    IF max = NoMax
    THEN {}
    ELSE {p \in Live(items) :
            Cardinality({q \in Live(items) : Older(items, p, q)}) >= max}
SweepEvicts(items, max) ==
    {p \in Pids : Expired(items[p])} \cup OverCapacity(items, max)

(* Variant: only a cached non-empty ID answers a lookup. *)
UsesCacheNonEmpty(get) == get.found /\ get.v # ""

(* lookupContainerIDByPID, lines 264-269: whatever Get finds is returned. *)
UsesCache(get) == get.found

CacheFrame ==
    UNCHANGED <<now, cancelled, store, initStore, inflight, acked, pc, runErr,
                start, loaded, queue, position, status, waitUntil, failures,
                failed, pubBit, saveBit, lastRequest, logVars, notCache>>

CacheTick ==
    /\ ctime < MaxCacheTime
    /\ ctime' = ctime + 1
    /\ UNCHANGED <<cgroups, janitor, cacheLog, docker>>
    /\ CacheFrame

(* lookupContainerIDByPID for an event without a PID field, or with one: *)
(* the cached ID, or the cgroups are read, the cache is made at its      *)
(* first use and the ID found is put.                                    *)
Lookup ==
    /\ docker.closed = "open"
    /\ \/ UNCHANGED <<cgroups, janitor, cacheLog>>
       \/ \E pid \in Pids :
            LET get == CacheGet(pid)
                got == [cgroups EXCEPT !.items[pid] =
                          IF @.has THEN GetTouch(@) ELSE @]
            IN  IF UsesCache(get)
                THEN /\ cgroups' = got
                     /\ cacheLog' = [cacheLog EXCEPT ![pid].hit = TRUE]
                     /\ UNCHANGED janitor
                ELSE \E read \in CgroupReads :
                       IF read = "not exist"
                       THEN /\ cgroups' = got
                            /\ cacheLog' = [cacheLog EXCEPT ![pid].reread = @ \/ get.found]
                            /\ UNCHANGED janitor
                       ELSE /\ cgroups' =
                                 [got EXCEPT
                                    !.made = TRUE,
                                    !.items = CachePut(@, pid, ContainerIdOf(read))]
                            /\ janitor' = IF cgroups.made
                                          THEN janitor
                                          ELSE StartJanitor(janitor)
                            /\ cacheLog' = [cacheLog EXCEPT ![pid] =
                                              [put |-> TRUE, src |-> read,
                                               v |-> ContainerIdOf(read),
                                               at |-> ctime, evictions |-> 0,
                                               hit |-> FALSE,
                                               reread |-> @.reread \/ get.found]]
    /\ UNCHANGED <<ctime, docker>>
    /\ CacheFrame

(* The effect of removing the entries of a set of PIDs, the listener *)
(* called for each.                                                  *)
Evict(ps) ==
    /\ cgroups' = [cgroups EXCEPT !.items =
                     [p \in Pids |-> IF p \in ps THEN NoEntry ELSE @[p]]]
    /\ cacheLog' = [p \in Pids |->
                      IF p \in ps /\ EvictionListener
                      THEN [cacheLog[p] EXCEPT !.evictions = @ + 1]
                      ELSE cacheLog[p]]

(* The janitor's sweep, one interval after the last. *)
Sweep ==
    /\ janitor.running
    /\ ctime >= janitor.lastSweep + JanitorInterval
    /\ janitor' = [janitor EXCEPT !.lastSweep = ctime]
    /\ Evict(SweepEvicts(cgroups.items, cgroups.max))
    /\ UNCHANGED <<ctime, docker>>
    /\ CacheFrame

(* Variant: Close leaves the janitor running. *)
CloseJanitorSkipped == janitor

(* Close, lines 228-230. *)
CloseJanitor == IF cgroups.made THEN StopJanitor(janitor) ELSE janitor

(* Close, lines 227-240: the janitor and the watcher are stopped, then the *)
(* source processor is closed and its error returned.                      *)
Close ==
    /\ docker.closed = "open"
    /\ janitor' = CloseJanitor
    /\ \E err \in {ErrNil, ErrOther} :
         docker' = [watcher |-> FALSE, closed |-> err]
    /\ UNCHANGED <<cgroups, ctime, cacheLog>>
    /\ CacheFrame

CacheNext ==
    \/ CacheTick
    \/ Lookup
    \/ Sweep
    \/ Close

SpecCache == PairInit /\ [][CacheNext]_vars

(* C20: as long as the TTL of the last Put(k, v) has not elapsed, Get(k)  *)
(* returns (v, found) and the listener has not been called for k; once it *)
(* has elapsed and the janitor has swept since, Get(k) returns not-found  *)
(* and the listener has been called exactly once for k.                   *)
C20_CacheTtl ==
    \A p \in Pids :
      cacheLog[p].put
        => /\ ctime < cacheLog[p].at + CgroupCacheExpiration
                => /\ CacheGet(p) = [found |-> TRUE, v |-> cacheLog[p].v]
                   /\ cacheLog[p].evictions = 0
           /\ janitor.lastSweep >= cacheLog[p].at + CgroupCacheExpiration
                => /\ ~CacheGet(p).found
                   /\ cacheLog[p].evictions = 1

(* An entry has been put, its TTL has elapsed and a sweep has evicted it. *)
C20_Witness ==
    \E p \in Pids :
      /\ cacheLog[p].put
      /\ cacheLog[p].v = "c1"
      /\ janitor.lastSweep >= cacheLog[p].at + CgroupCacheExpiration
      /\ ~CacheGet(p).found
      /\ cacheLog[p].evictions = 1

(* C21: the expiry of an entry is fixed by its last Put: whatever Gets    *)
(* have found the entry, its age is still counted from that Put, and the  *)
(* first sweep at or after the Put's time plus the TTL has evicted it.    *)
C21_GetKeepsDeadline ==
    \A p \in Pids :
      /\ CacheGet(p).found => cgroups.items[p].at = cacheLog[p].at
      /\ (cacheLog[p].put
            /\ janitor.lastSweep >= cacheLog[p].at + CgroupCacheExpiration)
           => ~CacheGet(p).found

(* An entry has been read from the cache after its Put, and the sweep at *)
(* the Put's time plus the TTL has evicted it all the same.              *)
C21_Witness ==
    \E p \in Pids :
      /\ cacheLog[p].put
      /\ cacheLog[p].hit
      /\ janitor.lastSweep = cacheLog[p].at + CgroupCacheExpiration
      /\ cgroups.made
      /\ ~cgroups.items[p].has

(* The processor with a cache that has a maximum entry count. *)
CapacityInit ==
    /\ StreamIdle
    /\ TestIdle
    /\ PairIdle
    /\ EventIdle
    /\ PollerIdle
    /\ EnrichIdle
    /\ FetchIdle
    /\ RaceIdle
    /\ TenantIdle
    /\ ConfigIdle
    /\ CacheNew(MaxEntries)

SpecCapacity == CapacityInit /\ [][CacheNext]_vars

Held == {p \in Pids : cgroups.items[p].has}

(* C22: with a maximum entry count, whatever keys have been put, the *)
(* cache holds at most that many entries when a sweep has run.       *)
C22_CapacityBound ==
    [][Sweep => Cardinality(Held') <= cgroups.max]_vars

(* More keys than the maximum have been put, and a sweep has evicted an *)
(* entry whose TTL had not elapsed to bring the count down to it.       *)
C22_Witness ==
    /\ Cardinality({p \in Pids : cacheLog[p].put}) > cgroups.max
    /\ Cardinality(Held) = MaxEntries
    /\ \E p \in Pids :
         /\ cacheLog[p].evictions = 1
         /\ ctime < cacheLog[p].at + CgroupCacheExpiration
         /\ janitor.lastSweep = ctime

(* C23: the cache and its janitor are made only by a lookup that has *)
(* missed and has cgroup data of the process to put: until then      *)
(* neither exists.                                                   *)
C23_MadeWithCgroupData ==
    [][(~cgroups.made /\ (cgroups'.made \/ janitor'.running))
         => \E p \in Pids :
              /\ ~cacheLog[p].put
              /\ cacheLog'[p].put
              /\ cacheLog'[p].src \in ContainerIds]_vars

----------------------------------------------------------------------------
(* The cache under concurrent use: Get and Put of any caller while the    *)
(* janitor sweeps. A sweep is no single step: it takes the cache's lock,  *)
(* finds the entries to evict, removes them one by one, the listener      *)
(* called for each, and releases the lock; Get and Put take the lock too. *)
(* Variant: Get and Put do not take the lock. *)
LockedNever == FALSE

Locked == janitor.sweeping

(* The cache of a processor after its first Put has been evicted: made, *)
(* empty, the janitor running.                                          *)
SweepInit ==
    /\ StreamIdle
    /\ TestIdle
    /\ PairIdle
    /\ EventIdle
    /\ PollerIdle
    /\ EnrichIdle
    /\ FetchIdle
    /\ RaceIdle
    /\ TenantIdle
    /\ ConfigIdle
    /\ cgroups = [made |-> TRUE, max |-> NoMax, items |-> [p \in Pids |-> NoEntry]]
    /\ janitor = [running |-> TRUE, lastSweep |-> 0, sweeping |-> FALSE,
                  pending |-> {}]
    /\ ctime = 0
    /\ cacheLog = [p \in Pids |-> NoLog]
    /\ docker = [watcher |-> TRUE, closed |-> "open"]

ClientGet ==
    /\ ~Locked
    /\ \E pid \in Pids :
         /\ CacheGet(pid).found
         /\ cgroups' = [cgroups EXCEPT !.items[pid] = GetTouch(@)]
         /\ cacheLog' = [cacheLog EXCEPT ![pid].hit = TRUE]
    /\ UNCHANGED <<janitor, ctime, docker>>
    /\ CacheFrame

ClientPut ==
    /\ ~Locked
    /\ \E pid \in Pids, v \in ContainerIds :
         /\ cgroups' = [cgroups EXCEPT !.items = CachePut(@, pid, v)]
         /\ cacheLog' = [cacheLog EXCEPT ![pid] =
                           [put |-> TRUE, src |-> v, v |-> v, at |-> ctime,
                            evictions |-> 0, hit |-> FALSE, reread |-> @.reread]]
    /\ UNCHANGED <<janitor, ctime, docker>>
    /\ CacheFrame

SweepBegin ==
    /\ janitor.running
    /\ ~janitor.sweeping
    /\ ctime >= janitor.lastSweep + JanitorInterval
    /\ janitor' = [janitor EXCEPT
                     !.sweeping = TRUE,
                     !.lastSweep = ctime,
                     !.pending = SweepEvicts(cgroups.items, cgroups.max)]
    /\ UNCHANGED <<cgroups, ctime, cacheLog, docker>>
    /\ CacheFrame

SweepEvict ==
    /\ janitor.sweeping
    /\ \E p \in janitor.pending :
         /\ Evict({p})
         /\ janitor' = [janitor EXCEPT !.pending = @ \ {p}]
    /\ UNCHANGED <<ctime, docker>>
    /\ CacheFrame

SweepEnd ==
    /\ janitor.sweeping
    /\ janitor.pending = {}
    /\ janitor' = [janitor EXCEPT !.sweeping = FALSE]
    /\ UNCHANGED <<cgroups, ctime, cacheLog, docker>>
    /\ CacheFrame

SweepNext ==
    \/ CacheTick
    \/ ClientGet
    \/ ClientPut
    \/ SweepBegin
    \/ SweepEvict
    \/ SweepEnd

SpecSweep == SweepInit /\ [][SweepNext]_vars

(* C24: a Get or Put and a sweep exclude each other: while a sweep is in  *)
(* progress no entry is put or read; an entry found is the one last put;  *)
(* no Put is lost, an entry whose TTL has not elapsed is there; and the   *)
(* listener is called only for an expired entry that the sweep removes in *)
(* the same step.                                                         *)
C24_SweepExcludesAccess ==
    /\ [][janitor.sweeping
            => \A p \in Pids :
                 /\ cacheLog'[p].put = cacheLog[p].put
                 /\ cacheLog'[p].at = cacheLog[p].at
                 /\ cacheLog'[p].hit = cacheLog[p].hit]_vars
    /\ [](\A p \in Pids :
            /\ CacheGet(p).found
                 => /\ cgroups.items[p].v = cacheLog[p].v
                    /\ cgroups.items[p].at = cacheLog[p].at
            /\ (cacheLog[p].put /\ ctime < cacheLog[p].at + CgroupCacheExpiration)
                 => CacheGet(p).found)
    /\ [][\A p \in Pids :
            cacheLog'[p].evictions > cacheLog[p].evictions
              => /\ cgroups.items[p].has
                 /\ ~cgroups'.items[p].has
                 /\ Expired(cgroups.items[p])]_vars

(* A sweep is in progress, with an entry still to evict and another entry *)
(* whose TTL has not elapsed, put before the sweep and read since.        *)
C24_Witness ==
    /\ janitor.sweeping
    /\ janitor.pending # {}
    /\ \E p \in Pids \ janitor.pending :
         /\ CacheGet(p).found
         /\ cacheLog[p].hit
         /\ ~Expired(cgroups.items[p])

----------------------------------------------------------------------------
(* configure (lines 70-87) and stream.Name (lines 89-91): the streams of a *)
(* configuration and the names their checkpoints are kept under. A string  *)
(* is the sequence of its characters.                                      *)
MaxList == 2
Separator == <<":", ":">>

(* The tenant IDs and content types a configuration may list: strings *)
(* without the separator, with it at their end and at their start.    *)
Identifiers == {<<"t">>, <<"u">>, <<"t", ":", ":">>, <<":", ":", "u">>}
IdentifierLists == UNION {[1..n -> Identifiers] : n \in 1..MaxList}

Stream(tenantID, contentType) ==
    [tenantID |-> tenantID, contentType |-> contentType]

Name(s) == s.tenantID \o Separator \o s.contentType

(* The loops of lines 76-84: for each tenant ID in the order of the list, *)
(* a stream for each content type in the order of the list.               *)
Sources(config) ==
    LET n == Len(config.ContentType)
    IN  [i \in 1..(Len(config.TenantID) * n) |->
           Stream(config.TenantID[((i - 1) \div n) + 1],
                  config.ContentType[((i - 1) % n) + 1])]

Configure ==
    /\ sources = <<>>
    /\ sources' = Sources(inputConfig)
    /\ UNCHANGED inputConfig
    /\ UNCHANGED <<now, cancelled, store, initStore, inflight, acked, pc, runErr,
                   start, loaded, queue, position, status, waitUntil, failures,
                   failed, pubBit, saveBit, lastRequest, logVars, notConfig>>

ConfigNext == Configure

ConfigInit ==
    /\ StreamIdle
    /\ TestIdle
    /\ PairIdle
    /\ EventIdle
    /\ PollerIdle
    /\ EnrichIdle
    /\ FetchIdle
    /\ RaceIdle
    /\ TenantIdle
    /\ CacheIdle
    /\ inputConfig \in [TenantID : IdentifierLists, ContentType : IdentifierLists]
    /\ sources = <<>>

SpecConfigure == ConfigInit /\ [][ConfigNext]_vars

Elements(list) == {list[i] : i \in DOMAIN list}

(* C26: configure returns exactly one stream for each pair of a tenant ID *)
(* and a content type of the configuration, streams of different pairs    *)
(* have different names, and no two streams have the same name.           *)
C26_OneStreamPerPair ==
    sources # <<>>
      => /\ \A t \in Elements(inputConfig.TenantID),
               c \in Elements(inputConfig.ContentType) :
              Cardinality({i \in DOMAIN sources : sources[i] = Stream(t, c)}) = 1
         /\ \A i, j \in DOMAIN sources :
              sources[i] # sources[j] => Name(sources[i]) # Name(sources[j])
         /\ \A i, j \in DOMAIN sources :
              i # j => Name(sources[i]) # Name(sources[j])

(* C29: while the entry of a PID is in the cache, a lookup of the PID is  *)
(* answered from it, whatever the cached ID, the empty one included: the  *)
(* cgroups of the PID are never read while its entry is cached, and no    *)
(* step puts the PID again before the entry has been evicted.             *)
C29_CachedPidNotReread ==
    /\ [](\A p \in Pids : ~cacheLog[p].reread)
    /\ [][\A p \in Pids :
            cgroups.items[p].has
              => /\ cacheLog'[p].put = cacheLog[p].put
                 /\ cacheLog'[p].src = cacheLog[p].src
                 /\ cacheLog'[p].at = cacheLog[p].at]_vars

(* The empty container ID is cached for a PID whose cgroups name no   *)
(* container, and a lookup has been answered with it from the cache.  *)
C29_Witness ==
    \E p \in Pids :
      /\ CacheGet(p) = [found |-> TRUE, v |-> ""]
      /\ cacheLog[p].src = ""
      /\ cacheLog[p].hit
      /\ ctime > cacheLog[p].at

(* C30: once Close has returned, whether with nil or with the error of  *)
(* closing the source processor, no janitor runs, no sweep can follow    *)
(* and the watcher is stopped; when the cache was never made, Close has  *)
(* returned all the same and no janitor has ever been started.           *)
C30_CloseStopsJanitor ==
    docker.closed # "open"
      => /\ ~janitor.running
         /\ ~docker.watcher
         /\ ~ENABLED Sweep
         /\ ~cgroups.made => janitor.lastSweep = 0

(* Close has returned the error of the source processor after the cache *)
(* had been made and its janitor started.                               *)
C30_Witness ==
    /\ docker.closed = ErrOther
    /\ cgroups.made
    /\ ~janitor.running
    /\ ctime >= janitor.lastSweep + JanitorInterval
    /\ \E p \in Pids : cgroups.items[p].has

----------------------------------------------------------------------------
(* addDockerMetadata.Run, lines 145-225: the container ID an event is    *)
(* enriched with. The event has or lacks log.file.path, whose extraction *)
(* by the source processor fails or leaves container.id empty or holding *)
(* an ID; lookupContainerIDByPID returns an ID or none; each configured   *)
(* match field is missing from the event or holds no string, the empty   *)
(* string or an ID.                                                      *)
MaxFields == 2
PathOutcomes == {"#absent", "#error", "", "cs"}
PidOutcomes == {"", "cp"}
FieldValues == {"#missing", "#number", "", "cf1", "cf2"}
FieldLists == UNION {[1..n -> FieldValues] : n \in 0..MaxFields}
IsString(value) == value \notin {"#missing", "#number"}

(* Lines 185-197: the value of the first field that holds a string. *)
FirstString(fields) ==
    LET strings == SelectSeq(fields, IsString)
    IN  IF strings = <<>> THEN "" ELSE Head(strings)

(* Lines 152-166: the source processor runs when it is configured and the *)
(* event has log.file.path.                                               *)
UsesPath(in) == in.matchSource /\ in.path # "#absent"
PathFails(in) == UsesPath(in) /\ in.path = "#error"
FromPath(in) == IF UsesPath(in) /\ ~PathFails(in) THEN in.path ELSE ""

(* Lines 169-178. *)
UsesPid(cid, in) == cid = "" /\ in.pidFields
FromPid(cid, in) == IF UsesPid(cid, in) /\ in.pid # "" THEN in.pid ELSE cid

(* Lines 181-194. *)
FromFields(cid, in) ==
    IF cid = "" /\ Len(in.fields) > 0 THEN FirstString(in.fields) ELSE cid

(* What Run consults and the container ID it goes to the watcher with; *)
(* the empty ID: the event is returned as it is.                       *)
RunResult(in) ==
    IF ~in.dockerAvailable
    THEN [done |-> TRUE, cid |-> "", consulted |-> <<>>]
    ELSE IF PathFails(in)
    THEN [done |-> TRUE, cid |-> "", consulted |-> <<"path">>]
    ELSE LET c1 == FromPath(in)
             c2 == FromPid(c1, in)
             c3 == FromFields(c2, in)
         IN  [done |-> TRUE, cid |-> c3,
              consulted |->
                  (IF UsesPath(in) THEN <<"path">> ELSE <<>>)
                  \o (IF UsesPid(c1, in) THEN <<"pid">> ELSE <<>>)
                  \o (IF c2 = "" /\ Len(in.fields) > 0
                      THEN <<"fields">> ELSE <<>>)]

Enrich ==
    /\ ~enrichOut.done
    /\ enrichOut' = RunResult(enrichIn)
    /\ UNCHANGED enrichIn
    /\ UNCHANGED <<now, cancelled, store, initStore, inflight, acked, pc, runErr,
                   start, loaded, queue, position, status, waitUntil, failures,
                   failed, pubBit, saveBit, lastRequest, logVars, notEnrich>>

EnrichNext == Enrich

EnrichInit ==
    /\ StreamIdle
    /\ TestIdle
    /\ PairIdle
    /\ EventIdle
    /\ PollerIdle
    /\ CacheIdle
    /\ ConfigIdle
    /\ FetchIdle
    /\ RaceIdle
    /\ TenantIdle
    /\ enrichIn \in [dockerAvailable : BOOLEAN, matchSource : BOOLEAN,
                     path : PathOutcomes, pidFields : BOOLEAN,
                     pid : PidOutcomes, fields : FieldLists]
    /\ enrichOut = [done |-> FALSE, cid |-> "", consulted |-> <<>>]

SpecEnrich == EnrichInit /\ [][EnrichNext]_vars

(* The ID each source has for the event, the empty one when it has none. *)
PathId == IF enrichIn.matchSource /\ enrichIn.path \in {"cs"} THEN "cs" ELSE ""
PidId == IF enrichIn.pidFields THEN enrichIn.pid ELSE ""
FieldsId == FirstString(enrichIn.fields)
Consulted(what) == \E i \in DOMAIN enrichOut.consulted : enrichOut.consulted[i] = what

(* C31: the container ID is that of the path, else that of the PID fields, *)
(* else the first match field holding a string; the PID fields are        *)
(* consulted only when the path has given no ID, the match fields only    *)
(* when neither has; without Docker nothing is consulted and the event is *)
(* returned as it is.                                                     *)
C31_CidByPriority ==
    enrichOut.done
      => IF ~enrichIn.dockerAvailable
         THEN enrichOut.cid = "" /\ enrichOut.consulted = <<>>
         ELSE /\ enrichOut.cid = IF PathId # "" THEN PathId
                                 ELSE IF PidId # "" THEN PidId
                                 ELSE FieldsId
              /\ Consulted("pid") => PathId = ""
              /\ Consulted("fields") => (PathId = "" /\ PidId = "")

----------------------------------------------------------------------------
(* httpMetadataFetcher.fetchMetadata and fetchRaw                          *)
(* (libbeat/processors/add_cloud_metadata/http_fetcher.go, lines 68-128): *)
(* one request per response handler, in the order of the map; a request   *)
(* goes through its stages and fails at one of them or its response is    *)
(* decoded into the metadata of the result.                               *)
MaxUrls == 2
Urls == 1..MaxUrls
Providers == {"aws", "gcp"}

(* The stages of fetchRaw and the error a failure at each sets. *)
Stages == <<"request", "transport", "status", "body", "decode">>

(* Variant: fetchMetadata goes on after a request has failed. *)
StopsOnErrorNever(res) == res.err # res.err

(* fetchMetadata, lines 72-74: if res.err != nil { return res }. *)
StopsOnError(res) == res.err # "nil"

FetchFrame ==
    UNCHANGED <<now, cancelled, store, initStore, inflight, acked, pc, runErr,
                start, loaded, queue, position, status, waitUntil, failures,
                failed, pubBit, saveBit, lastRequest, logVars, notFetch>>

(* The loop of line 70 takes a handler of the map. *)
FetchRaw ==
    /\ fetcher.pc = "loop"
    /\ \E url \in fetcher.handlers :
         fetcher' = [fetcher EXCEPT !.handlers = @ \ {url}, !.url = url,
                                    !.stage = 1, !.pc = "raw"]
    /\ UNCHANGED fetchRes
    /\ FetchFrame

(* A stage of fetchRaw succeeds or fails; after the last one fetchRaw *)
(* returns to the loop, after a failure it returns with result.err.   *)
FetchRawStage ==
    /\ fetcher.pc = "raw"
    /\ \E ok \in BOOLEAN :
         IF ok
         THEN IF fetcher.stage < Len(Stages)
              THEN /\ fetcher' = [fetcher EXCEPT !.stage = @ + 1]
                   /\ UNCHANGED fetchRes
              ELSE /\ fetcher' = [fetcher EXCEPT !.pc = "loop"]
                   /\ fetchRes' = [fetchRes EXCEPT !.raw = @ \cup {fetcher.url}]
         ELSE LET res == [fetchRes EXCEPT !.err = Stages[fetcher.stage]]
              IN  /\ fetchRes' = res
                  /\ fetcher' = [fetcher EXCEPT
                                   !.pc = IF StopsOnError(res)
                                          THEN "returned" ELSE "loop"]
    /\ FetchFrame

(* Lines 78-82: the schema is applied, cloud.provider is put. *)
FetchConvert ==
    /\ fetcher.pc = "loop"
    /\ fetcher.handlers = {}
    /\ fetchRes' = [fetchRes EXCEPT !.conv = TRUE, !.provider = fetcher.provider]
    /\ fetcher' = [fetcher EXCEPT !.pc = "returned"]
    /\ FetchFrame

FetchNext ==
    \/ FetchRaw
    \/ FetchRawStage
    \/ FetchConvert

FetchInit ==
    /\ StreamIdle
    /\ TestIdle
    /\ PairIdle
    /\ EventIdle
    /\ PollerIdle
    /\ EnrichIdle
    /\ RaceIdle
    /\ TenantIdle
    /\ CacheIdle
    /\ ConfigIdle
    /\ fetcher \in [provider : Providers, handlers : (SUBSET Urls) \ {{}},
                    url : {NoUrl}, stage : {0}, pc : {"loop"}]
    /\ fetchRes = [err |-> "nil", raw |-> {}, conv |-> FALSE, provider |-> ""]

SpecFetch == FetchInit /\ [][FetchNext]_vars

(* C32: when a request has failed, fetchMetadata has returned at once    *)
(* with that error, without another request, the schema not applied and *)
(* cloud.provider not put; when it returns without error every request  *)
(* has succeeded, the schema is applied and cloud.provider is the       *)
(* provider.                                                            *)
C32_FetchErrorOrProvider ==
    /\ fetchRes.err # "nil"
         => /\ fetcher.pc = "returned"
            /\ fetchRes.err = Stages[fetcher.stage]
            /\ fetcher.url \notin fetchRes.raw
            /\ ~fetchRes.conv
            /\ fetchRes.provider = ""
            /\ ~ENABLED FetchNext
    /\ (fetcher.pc = "returned" /\ fetchRes.err = "nil")
         => /\ fetcher.handlers = {}
            /\ fetchRes.conv
            /\ fetchRes.provider = fetcher.provider
    /\ fetchRes.conv => fetcher.pc = "returned"

(* The first request has succeeded, the second has failed at decoding *)
(* and fetchMetadata has returned with that error.                    *)
C32_Witness ==
    /\ fetcher.pc = "returned"
    /\ fetchRes.err = "decode"
    /\ fetchRes.raw # {}
    /\ ~fetchRes.conv

----------------------------------------------------------------------------
(* Run of one add_docker_metadata processor called by several goroutines, *)
(* each with an event whose PID is not cached and whose cgroups are read: *)
(* lookupContainerIDByPID, lines 282-286, and lazyCgroupCacheInit, lines  *)
(* 134-143, statement by statement. Nothing orders the reads and writes   *)
(* of d.cgroups of one goroutine with those of another. Goroutine g looks *)
(* up PID g; the cache it makes, if it makes one, is cache g.             *)
RaceFrame ==
    UNCHANGED <<now, cancelled, store, initStore, inflight, acked, pc, runErr,
                start, loaded, queue, position, status, waitUntil, failures,
                failed, pubBit, saveBit, lastRequest, logVars, notRace>>

(* Lines 274-283: the goroutine reads the cgroups of its PID. A PID whose  *)
(* process is gone ("not exist") is skipped, line 277, and the lookup     *)
(* ends without touching the cache.                                       *)
GoRead ==
    /\ ~goClosed
    /\ \E g \in Goroutines, read \in {"not exist", "cgroups"} :
         /\ goPc[g] = "idle"
         /\ goPc' = [goPc EXCEPT ![g] = IF read = "not exist"
                                        THEN "skipped" ELSE "check"]
    /\ UNCHANGED <<goSeen, goCgroups, goCaches, goClosed>>
    /\ RaceFrame

(* Line 135: if d.cgroups == nil. *)
GoCheck ==
    /\ \E g \in Goroutines :
         /\ goPc[g] = "check"
         /\ goSeen' = [goSeen EXCEPT ![g] = goCgroups]
         /\ goPc' = [goPc EXCEPT ![g] = IF goCgroups = NilCache
                                        THEN "new" ELSE "put"]
    /\ UNCHANGED <<goCgroups, goCaches, goClosed>>
    /\ RaceFrame

(* Line 140: d.cgroups = common.NewCacheWithRemovalListener(...). *)
GoNew ==
    /\ \E g \in Goroutines :
         /\ goPc[g] = "new"
         /\ goCaches' = [goCaches EXCEPT ![g].made = TRUE]
         /\ goCgroups' = g
         /\ goPc' = [goPc EXCEPT ![g] = "start"]
    /\ UNCHANGED <<goSeen, goClosed>>
    /\ RaceFrame

(* Line 141: d.cgroups.StartJanitor(5 * time.Second). *)
GoStartJanitor ==
    /\ \E g \in Goroutines :
         /\ goPc[g] = "start"
         /\ goCaches' = [goCaches EXCEPT ![goCgroups].janitor = TRUE]
         /\ goPc' = [goPc EXCEPT ![g] = "put"]
    /\ UNCHANGED <<goSeen, goCgroups, goClosed>>
    /\ RaceFrame

(* Line 286: d.cgroups.Put(pid, cid). *)
GoPut ==
    /\ \E g \in Goroutines :
         /\ goPc[g] = "put"
         /\ goCaches' = [goCaches EXCEPT ![goCgroups].items = @ \cup {g}]
         /\ goPc' = [goPc EXCEPT ![g] = "done"]
    /\ UNCHANGED <<goSeen, goCgroups, goClosed>>
    /\ RaceFrame

(* Close, lines 228-230, after every Run has returned. *)
GoClose ==
    /\ ~goClosed
    /\ \A g \in Goroutines : goPc[g] \in {"idle", "skipped", "done"}
    /\ goClosed' = TRUE
    /\ goCaches' = IF goCgroups = NilCache
                   THEN goCaches
                   ELSE [goCaches EXCEPT ![goCgroups].janitor = FALSE]
    /\ UNCHANGED <<goPc, goSeen, goCgroups>>
    /\ RaceFrame

RaceNext ==
    \/ GoRead
    \/ GoCheck
    \/ GoNew
    \/ GoStartJanitor
    \/ GoPut
    \/ GoClose

RaceInit == StreamIdle /\ AuxIdle

SpecRace == RaceInit /\ [][RaceNext]_vars

(* C35: whatever the interleaving of the goroutines, at most one cache is *)
(* made and at most one janitor started, the entry a goroutine has put is *)
(* in the cache d.cgroups points to, and no janitor runs after Close.     *)
C35_OneCacheOneJanitor ==
    /\ Cardinality({c \in Goroutines : goCaches[c].made}) <= 1
    /\ Cardinality({c \in Goroutines : goCaches[c].janitor}) <= 1
    /\ \A g \in Goroutines :
         goPc[g] = "done" => (goCgroups # NilCache /\ g \in goCaches[goCgroups].items)
    /\ goClosed => \A c \in Goroutines : ~goCaches[c].janitor

(* C36: every entry of the PID cache comes from a successful read of the *)
(* cgroups of its PID: a read that fails with an error other than        *)
(* not-exist puts nothing, and no lookup is answered from such an entry. *)
C36_OnlySuccessfulReadsCached ==
    \A p \in Pids :
      /\ cgroups.items[p].has => cacheLog[p].src \in ContainerIds
      /\ cacheLog[p].hit => cacheLog[p].src \in ContainerIds

(* C37: when the publish of the pipeline-error event fails, Run goes on as *)
(* after a publish that succeeded: the last status it gives is Degraded    *)
(* with the error of the run attempt, it waits ErrorRetryInterval (the     *)
(* wait ends before that only by the cancellation) and, not cancelled, it  *)
(* starts another run attempt.                                             *)
C37_PublishFailureKeepsRetrying ==
    /\ [][(pc = "returned" /\ SwitchCase(runErr, CancelationErr) = "degraded"
             /\ inflight' = inflight /\ pc' # pc)
            => /\ status' = "Degraded"
               /\ Len(statusMsg') = 2
               /\ statusMsg'[Len(statusMsg')] = runErr
               /\ waitUntil' = now + ErrorRetryInterval
               /\ pc' = "wait"]_vars
    /\ [][(pc = "wait" /\ Len(statusMsg) = 2 /\ pc' # pc)
            => (pc' = "loop" /\ (cancelled \/ now >= waitUntil))]_vars
    /\ [][(pc = "loop" /\ Len(statusMsg) = 2 /\ ~cancelled /\ pc' # pc)
            => pc' = "run"]_vars
    /\ [](Len(statusMsg) = 2 => pc \in {"wait", "loop"})

(* The publish of the error event has failed, Run has waited the whole *)
(* retry interval and is about to start the next attempt.              *)
C37_Witness ==
    /\ pc = "loop"
    /\ ~cancelled
    /\ Len(statusMsg) = 2
    /\ statusMsg[2] = runErr
    /\ status = "Degraded"
    /\ now >= waitUntil

----------------------------------------------------------------------------
(* The streams of one tenant, one per configured content type, each with  *)
(* its own poller (run, lines 169-180) and all with the same minimum      *)
(* request interval (line 167). The clock of this part counts sixths of a *)
(* minute, so that the division of line 167 is exact for every            *)
(* configuration within the bounds.                                       *)
MaxTypes == 2
MaxRate == 3
MaxTenantTime == 7

(* time.Minute, in the time units of this part. *)
TenantMinute == 6

(* Line 167: len(config.ContentType) * time.Minute / MaxRequestsPerMinute, *)
(* the division of two integers.                                           *)
TenantDelay(types, rpm) == (types * TenantMinute) \div rpm

(* The upstream calls of the minute that ends now. *)
LastMinute(made, t) == {c \in made : c[2] > t - TenantMinute}

TenantFrame ==
    UNCHANGED <<now, cancelled, store, initStore, inflight, acked, pc, runErr,
                start, loaded, queue, position, status, waitUntil, failures,
                failed, pubBit, saveBit, lastRequest, logVars, notTenant>>

TenantTick ==
    /\ tNow < MaxTenantTime
    /\ tNow' = tNow + 1
    /\ tCalls' = LastMinute(tCalls, tNow')
    /\ UNCHANGED <<tConfig, tLast>>
    /\ TenantFrame

(* The poller of one stream makes an upstream call: its first, or one    *)
(* after the minimum request interval has passed since its last call.    *)
TenantCall ==
    /\ \E s \in 1..tConfig.types :
         /\ \/ tLast[s] = NoCall
            \/ tNow >= tLast[s] + TenantDelay(tConfig.types, tConfig.rpm)
         /\ tLast' = [tLast EXCEPT ![s] = tNow]
         /\ tCalls' = tCalls \cup {<<s, tNow>>}
    /\ UNCHANGED <<tConfig, tNow>>
    /\ TenantFrame

TenantNext ==
    \/ TenantTick
    \/ TenantCall

TenantInit ==
    /\ StreamIdle
    /\ TestIdle
    /\ PairIdle
    /\ EventIdle
    /\ PollerIdle
    /\ EnrichIdle
    /\ FetchIdle
    /\ RaceIdle
    /\ CacheIdle
    /\ ConfigIdle
    /\ \E types \in 1..MaxTypes, rpm \in 1..MaxRate :
         /\ tConfig = [types |-> types, rpm |-> rpm]
         /\ tLast = [s \in 1..types |-> NoCall]
    /\ tNow = 0
    /\ tCalls = {}

SpecTenant == TenantInit /\ [][TenantNext]_vars

(* C38: with the interval of line 167 given to the poller of every stream, *)
(* the streams of one tenant together make at most MaxRequestsPerMinute    *)
(* upstream calls in any minute, for every number of content types and     *)
(* every MaxRequestsPerMinute of at least 1.                               *)
C38_TenantRateBound ==
    Cardinality(LastMinute(tCalls, tNow)) <= tConfig.rpm

====
